---- MODULE Spec2Model ----
(***************************************************************************)
(* Verification model of cb-tumblebug's core:                              *)
(*   - the credential / connection registry  (src/core/common/utility.go)  *)
(*   - the vNet lifecycle of the resource manager (resource/vnet.go,       *)
(*     kept as src/unnamed/part_002)                                       *)
(*                                                                         *)
(* Strings that the code concatenates, splits or prefix-matches are        *)
(* modelled as sequences of tokens ("aws-r1" is <<"aws","-","r1">>), so    *)
(* that concatenation is \o and HasPrefix is a prefix test on sequences.   *)
(***************************************************************************)
EXTENDS Integers, Sequences, FiniteSets, TLC

(* ------------------------------ bounds --------------------------------- *)
\* number of request handlers that may run concurrently
NumProcs == 2
\* number of public-key tokens that GetPublicKeyForCredentialEncryption issues
MaxTokens == 2
\* number of RegisterCredential invocations in one behaviour
MaxCalls == 2
\* number of vNet handler invocations in one behaviour
MaxVNetCalls == 3
\* largest number of subnets in a vNet request or in a broker response
MaxSubnets == 2
\* number of uids GenUid hands out in one behaviour
MaxUid == 6
\* width of an address in the model's CIDR blocks
AddrBits == 3
\* the most connections one probe fan-out is given
MaxProbeConfigs == 33
\* label requests that change the store, over all handlers
MaxLabelCalls == 3
\* the longest name CheckString is given
MaxNameLen == 4
\* requests the HTTP server has in flight at once
MaxInFlight == 3
\* the longest password GenRandomPassword is asked for
MaxPasswordLen == 46

Procs == 1..NumProcs

VARIABLES
    privateKeyStore,   \* utility.go:512  set of token ids that hold a private key
    nextToken,         \* tokens issued so far (GenUid never repeats)
    connStore,         \* kvstore entries under /connection/ : key -> ConnConfig
    rc,                \* per handler: the RegisterCredential call in progress
    callsMade,         \* RegisterCredential invocations so far
    kv,                \* kvstore entries under /ns/ : key -> vNet or subnet object
    vn,                \* per handler: the vNet call in progress
    nextUid,           \* uids handed out so far (GenUid never repeats)
    vnCalls,           \* vNet handler invocations so far
    fan,               \* utility.go:730-772  the probe fan-out of one RegisterCredential
    labelStore,        \* kvstore entries under /label/ : <<kind, uid>> -> label entry
    labelLog,          \* per request path <<kind, uuid>>: the labels asked for so far
    labelResp,         \* the last response of a label handler
    labelCalls,        \* label handler invocations so far
    chk,               \* utility.go:104-123  the CheckString call: its argument and its result
    boot,              \* utility.go:382-510  RegisterAllCloudInfo in progress
    srv,               \* server.go:513-552  RunServer, its shutdown goroutine and the HTTP server
    rw,                 \* utility.go:814-852  one rewrite of a region representative: input and outcome
    vr,                 \* part_002:77-143  one ValidateVNetReq call on a generated connection name
    api,                \* server.go:93-510  the echo instance RunServer sets up: middleware, routes, last request
    pw                 \* utility.go:56-80  one GenRandomPassword call: its length and its result

credVars == <<privateKeyStore, nextToken, connStore, rc, callsMade>>
vnetVars == <<kv, vn, nextUid, vnCalls>>
fanVars == <<fan>>
labelVars == <<labelStore, labelLog, labelResp, labelCalls>>
checkVars == <<chk>>
bootVars == <<boot>>
serverVars == <<srv>>
rewriteVars == <<rw>>
validateVars == <<vr>>
routesVars == <<api>>
passwordVars == <<pw>>
exceptCred == <<vnetVars, fanVars, labelVars, checkVars, bootVars, serverVars, rewriteVars, validateVars, routesVars, passwordVars>>
exceptVNet == <<credVars, fanVars, labelVars, checkVars, bootVars, serverVars, rewriteVars, validateVars, routesVars, passwordVars>>
exceptFan == <<credVars, vnetVars, labelVars, checkVars, bootVars, serverVars, rewriteVars, validateVars, routesVars, passwordVars>>
exceptLabel == <<credVars, vnetVars, fanVars, checkVars, bootVars, serverVars, rewriteVars, validateVars, routesVars, passwordVars>>
exceptCheck == <<credVars, vnetVars, fanVars, labelVars, bootVars, serverVars, rewriteVars, validateVars, routesVars, passwordVars>>
exceptBoot == <<credVars, vnetVars, fanVars, labelVars, checkVars, serverVars, rewriteVars, validateVars, routesVars, passwordVars>>
exceptServer == <<credVars, vnetVars, fanVars, labelVars, checkVars, bootVars, rewriteVars, validateVars, routesVars, passwordVars>>
exceptRewrite == <<credVars, vnetVars, fanVars, labelVars, checkVars, bootVars, serverVars, validateVars, routesVars, passwordVars>>
exceptValidate == <<credVars, vnetVars, fanVars, labelVars, checkVars, bootVars, serverVars, rewriteVars, routesVars, passwordVars>>
exceptRoutes == <<credVars, vnetVars, fanVars, labelVars, checkVars, bootVars, serverVars, rewriteVars, validateVars, passwordVars>>
exceptPassword == <<credVars, vnetVars, fanVars, labelVars, checkVars, bootVars, serverVars, rewriteVars, validateVars, routesVars>>
vars == <<credVars, vnetVars, fanVars, labelVars, checkVars, bootVars, serverVars, rewriteVars, validateVars, routesVars, passwordVars>>

(* ------------------------- strings as token lists ---------------------- *)
Dash == <<"-">>

\* strings.ToLower / strings.ToUpper on one token
LowerTok(t) ==
    CASE t = "AWS" -> "aws"
      [] t = "GCP" -> "gcp"
      [] t = "BOB" -> "bob"
      [] t = "ADMIN" -> "admin"
      [] OTHER -> t

UpperTok(t) ==
    CASE t = "aws" -> "AWS"
      [] t = "gcp" -> "GCP"
      [] t = "bob" -> "BOB"
      [] t = "admin" -> "ADMIN"
      [] OTHER -> t

ToLower(s) == [i \in DOMAIN s |-> LowerTok(s[i])]
ToUpper(s) == [i \in DOMAIN s |-> UpperTok(s[i])]
EqualFold(a, b) == ToLower(a) = ToLower(b)
HasPrefix(s, p) == Len(p) <= Len(s) /\ SubSeq(s, 1, Len(p)) = p

(* ------------------------------ catalog -------------------------------- *)
\* RuntimeCloudInfo: provider -> driver and regions -> {RegionId, RegionName, Zones}
RuntimeCloudInfo ==
    ( "aws" :> [Driver  |-> "aws-driver",
                Order   |-> <<"r1", "r2">>,
                Regions |-> ( "r1" :> [RegionId |-> "r1", RegionName |-> <<"r1">>, Zones |-> <<"a", "b">>] ) @@
                            ( "r2" :> [RegionId |-> "r2", RegionName |-> <<"r2">>, Zones |-> <<>>] )] ) @@
    ( "gcp" :> [Driver  |-> "gcp-driver",
                Order   |-> <<"r1">>,
                Regions |-> ( "r1" :> [RegionId |-> "r1", RegionName |-> <<"r1">>, Zones |-> <<"a">>] )] )

ProviderOrder == <<"aws", "gcp">>

NoRegion == [RegionId |-> "", RegionName |-> <<>>, Zones |-> <<>>]

\* GetRegion: case-insensitive lookup of a region of a provider in the catalog
GetRegion(ProviderName, RegionName) ==
    LET p == ToLower(ProviderName)
        r == ToLower(RegionName)
    IN  IF Len(p) # 1 \/ p[1] \notin DOMAIN RuntimeCloudInfo
        THEN [ok |-> FALSE, detail |-> NoRegion]
        ELSE LET regs == RuntimeCloudInfo[p[1]].Regions
                 hit  == {k \in DOMAIN regs : EqualFold(r, <<k>>)}
             IN  IF hit = {}
                 THEN [ok |-> FALSE, detail |-> NoRegion]
                 ELSE [ok |-> TRUE, detail |-> regs[CHOOSE k \in hit : TRUE]]

\* RegisterRegionZone: the entries one region contributes to the broker's
\* region registry: the region-only entry, then one entry per zone
RegisterRegionZone(providerName, regionName) ==
    LET rd    == RuntimeCloudInfo[providerName].Regions[regionName]
        zone0 == IF Len(rd.Zones) > 0 THEN rd.Zones[1] ELSE "N/A"
        rep   == [ProviderName |-> <<UpperTok(providerName)>>,
                  RegionName   |-> <<providerName>> \o Dash \o <<regionName>>,
                  Region       |-> rd.RegionId,
                  Zone         |-> zone0]
    IN  <<rep>> \o
        [i \in 1..Len(rd.Zones) |->
            [ProviderName |-> <<UpperTok(providerName)>>,
             RegionName   |-> <<providerName>> \o Dash \o <<regionName>> \o Dash \o <<rd.Zones[i]>>,
             Region       |-> rd.RegionId,
             Zone         |-> rd.Zones[i]]]

RECURSIVE RegionsFrom(_, _)
RegionsFrom(providerName, i) ==
    LET ord == RuntimeCloudInfo[providerName].Order
    IN  IF i > Len(ord) THEN <<>>
        ELSE RegisterRegionZone(providerName, ord[i]) \o RegionsFrom(providerName, i + 1)

\* RegisterCloudInfo: every region and zone of one provider
RegisterCloudInfo(providerName) == RegionsFrom(providerName, 1)

RECURSIVE AllCloudInfoFrom(_)
AllCloudInfoFrom(i) ==
    IF i > Len(ProviderOrder) THEN <<>>
    ELSE RegisterCloudInfo(ProviderOrder[i]) \o AllCloudInfoFrom(i + 1)

\* GetRegionList: the broker's region registry after the catalog bootstrap
GetRegionList == AllCloudInfoFrom(1)

(* --------------------------- connection store -------------------------- *)
DefaultCredentialHolder == "admin"

GenConnectionKey(connectionId) == <<"/connection/">> \o connectionId

\* kvstore.Put on the connection store
PutConn(store, c) ==
    [k \in (DOMAIN store) \cup {GenConnectionKey(c.ConfigName)} |->
        IF k = GenConnectionKey(c.ConfigName) THEN c ELSE store[k]]

RECURSIVE PutConns(_, _)
PutConns(store, cs) ==
    IF cs = <<>> THEN store ELSE PutConns(PutConn(store, Head(cs)), Tail(cs))

HolderOrder == <<"admin", "bob">>

\* the ConfigName RegisterCredential generates for a holder and a broker region
GenConfigName(holder, regionName) ==
    IF holder = DefaultCredentialHolder THEN regionName
    ELSE <<holder>> \o Dash \o regionName

RECURSIVE KeysFrom(_)
KeysFrom(i) ==
    IF i > Len(HolderOrder) THEN <<>>
    ELSE [j \in 1..Len(GetRegionList) |->
             GenConnectionKey(GenConfigName(HolderOrder[i], GetRegionList[j].RegionName))]
         \o KeysFrom(i + 1)

\* every key RegisterCredential can write, in the order the store lists them
ConnKeyOrder == KeysFrom(1)

\* kvstore.GetKvList("/connection"): the stored entries, in key order
GetKvListConn(store) ==
    LET IsStored(k) == k \in DOMAIN store
        keys == SelectSeq(ConnKeyOrder, IsStored)
    IN  [i \in 1..Len(keys) |-> store[keys[i]]]

\* GetConnConfigList: the stored ConnConfigs, filtered by holder, by Verified
\* and by RegionRepresentative
GetConnConfigList(store, filterCredentialHolder, filterVerified, filterRegionRepresentative) ==
    LET ByHolder(c) == filterCredentialHolder = "" \/
                       LowerTok(c.CredentialHolder) = LowerTok(filterCredentialHolder)
        ByVerified(c) == ~filterVerified \/ c.Verified
        ByRep(c) == ~filterRegionRepresentative \/ c.RegionRepresentative
    IN  SelectSeq(SelectSeq(SelectSeq(GetKvListConn(store), ByHolder), ByVerified), ByRep)

\* RegisterConnectionConfig: the ConnConfig stored for one broker region
\* (a fresh object: Verified and RegionRepresentative are false)
RegisterConnectionConfig(holder, providerName, credentialName, region) ==
    LET lower == ToLower(region.ProviderName)
    IN  [ConfigName           |-> GenConfigName(holder, region.RegionName),
         ProviderName         |-> lower,
         DriverName           |-> RuntimeCloudInfo[providerName].Driver,
         CredentialName       |-> credentialName,
         RegionZoneInfoName   |-> region.RegionName,
         CredentialHolder     |-> holder,
         RegionZoneInfo       |-> [AssignedRegion |-> region.Region, AssignedZone |-> region.Zone],
         RegionDetail         |-> GetRegion(lower, <<region.Region>>).detail,
         Verified             |-> FALSE,
         RegionRepresentative |-> FALSE]

(* --------------------------- RegisterCredential ------------------------ *)
HolderInputs == {"admin", "bob", "BOB"}
ProviderInputs == {"aws", "AWS", "gcp", "azure"}
\* aes.BlockSize, utility.go:601-602
BlockSize == 16
\* one encrypted value of a request: does it base64-decode, how many bytes it
\* decodes to (IV and ciphertext), the last byte of the decrypted ciphertext,
\* and the secret the padding leaves
EncryptedValue(b64, len, pad, plain) == [b64 |-> b64, len |-> len, pad |-> pad, plain |-> plain]
Secrets == {"s1", "s2"}
\* the envelope of a request: the RSA-encrypted AES key and the encrypted
\* values; (any) also values of any length and padding, two secrets, no value
Envelopes(any) ==
    IF any
    THEN {[aesKey |-> k, values |-> vs] :
             k \in {"ok", "badBase64", "badRsaOaep"},
             vs \in {<<>>} \cup
                    {<<EncryptedValue(b64, len, pad, s)>> :
                        b64 \in BOOLEAN, len \in {0, BlockSize - 1, BlockSize, BlockSize + 1, 2 * BlockSize},
                        pad \in {0, 1, BlockSize, BlockSize + 1}, s \in Secrets}}
    ELSE {[aesKey |-> "ok", values |-> <<EncryptedValue(TRUE, 2 * BlockSize, 1, "s1")>>],
          [aesKey |-> "ok", values |-> <<EncryptedValue(TRUE, 2 * BlockSize, BlockSize + 1, "s1")>>],
          [aesKey |-> "ok", values |-> <<EncryptedValue(FALSE, 2 * BlockSize, 1, "s1")>>],
          [aesKey |-> "badBase64", values |-> <<EncryptedValue(TRUE, 2 * BlockSize, 1, "s1")>>],
          [aesKey |-> "badRsaOaep", values |-> <<EncryptedValue(TRUE, 2 * BlockSize, 1, "s1")>>]}

\* unpad, utility.go:545-552, on a decrypted ciphertext of length bytes whose
\* last byte is unpadding
Unpad(length, unpadding) ==
    IF length = 0 THEN "panic: index out of range"
    ELSE IF unpadding > BlockSize \/ unpadding > length THEN "badPadding"
    ELSE "ok"

\* utility.go:587-611: what decrypting one value does
DecryptValue(v) ==
    IF ~v.b64 THEN "badValueBase64"
    ELSE IF v.len < BlockSize THEN "panic: slice bounds out of range"
    ELSE IF (v.len - BlockSize) % BlockSize # 0 THEN "panic: input not full blocks"
    ELSE Unpad(v.len - BlockSize, v.pad)

\* utility.go:567-618: what opening the envelope of a request does: "ok", the
\* error RegisterCredential returns, or the panic it ends in
RECURSIVE DecryptValues(_)
DecryptValues(values) ==
    IF values = <<>> THEN "ok"
    ELSE IF DecryptValue(Head(values)) # "ok" THEN DecryptValue(Head(values))
    ELSE DecryptValues(Tail(values))
Open(envelope) ==
    IF envelope.aesKey = "badBase64" THEN "badAesKeyBase64"
    ELSE IF envelope.aesKey = "badRsaOaep" THEN "badRsaOaep"
    ELSE DecryptValues(envelope.values)
\* utility.go:613-616: the decrypted key-value list
Decrypted(envelope) ==
    [i \in 1..Len(envelope.values) |-> [Key |-> "k", Value |-> envelope.values[i].plain]]
\* a faulty redaction: the values of the broker's answer are returned as
\* they came
KeepValues(KeyValueInfoList) == KeyValueInfoList

\* utility.go:667-669: every value of the broker's answer is masked
Mask == "************"
MaskValues(KeyValueInfoList) ==
    [i \in 1..Len(KeyValueInfoList) |-> [KeyValueInfoList[i] EXCEPT !.Value = Mask]]
\* the request of a call that has not begun
NoEnvelope == [aesKey |-> "ok", values |-> <<>>]

\* a call record; alone: no other call has begun since this one began;
\* probed: the ConfigNames whose probe of this call succeeded; decrypted: the
\* decrypted key-value list; pushed: the credential was sent to the broker;
\* ret: the KeyValueInfoList of callResult, which is what a return hands back
IdleCall == [pc |-> "idle", token |-> 0, holder |-> "", provider |-> "",
             envelope |-> NoEnvelope, found |-> FALSE, err |-> "",
             alone |-> FALSE, probed |-> {},
             decrypted |-> <<>>, pushed |-> FALSE, ret |-> <<>>]

\* the call returns: only its token, whether the key was found, whether the
\* broker was sent the credential, its error and the value it returned remain
Return(p, e) ==
    rc' = [rc EXCEPT ![p] = [IdleCall EXCEPT !.pc = "done", !.token = rc[p].token,
                                             !.found = rc[p].found, !.err = e,
                                             !.pushed = rc[p].pushed, !.ret = rc[p].ret]]
Goto(p, l) == rc' = [rc EXCEPT ![p].pc = l]

\* GetPublicKeyForCredentialEncryption: a fresh token whose private key is stored
GetPublicKeyForCredentialEncryption ==
    /\ nextToken < MaxTokens
    /\ nextToken' = nextToken + 1
    /\ privateKeyStore' = privateKeyStore \cup {nextToken + 1}
    /\ UNCHANGED <<connStore, rc, callsMade>>

\* RegisterCredential, utility.go:557-563: look the private key up under the mutex
RCLookupIn(p, any) ==
    /\ rc[p].pc \in {"idle", "done"}
    /\ callsMade < MaxCalls
    /\ callsMade' = callsMade + 1
    /\ \E t \in 1..MaxTokens, h \in HolderInputs, pr \in ProviderInputs, e \in Envelopes(any) :
          LET call == [IdleCall EXCEPT !.pc = "decrypt", !.token = t, !.holder = LowerTok(h),
                       !.provider = LowerTok(pr), !.envelope = e, !.found = TRUE,
                       !.alone = \A q \in Procs \ {p} : rc[q].pc \in {"idle", "done"}]
          IN  IF t \in privateKeyStore
              THEN rc' = [q \in Procs |-> IF q = p THEN call ELSE [rc[q] EXCEPT !.alone = FALSE]]
              ELSE rc' = [rc EXCEPT ![p] = [IdleCall EXCEPT !.pc = "done", !.token = t,
                                                            !.err = "private key not found"]]
    /\ UNCHANGED <<privateKeyStore, nextToken, connStore>>

\* RegisterCredential called with a well-sized envelope
RCLookup(p) == RCLookupIn(p, FALSE)

\* RegisterCredential called with any envelope
RCLookupAny(p) == RCLookupIn(p, TRUE)

\* utility.go:565-626 (the request's holder and provider are lower-cased, as
\* lines 625-626 do, when the call record is built): open the envelope; every failure returns at once, and
\* only the path on which every value decrypted deletes the private key
RCDecrypt(p) ==
    /\ rc[p].pc = "decrypt"
    /\ IF Open(rc[p].envelope) = "ok"
       THEN /\ privateKeyStore' = privateKeyStore \ {rc[p].token}
            /\ rc' = [rc EXCEPT ![p].pc = "pushCredential",
                                ![p].decrypted = Decrypted(rc[p].envelope),
                                ![p].envelope = NoEnvelope]
       ELSE /\ UNCHANGED privateKeyStore
            /\ Return(p, Open(rc[p].envelope))
    /\ UNCHANGED <<nextToken, connStore, callsMade>>

\* utility.go:646-665: the KeyValueInfoList of the broker's answer to the
\* credential it was sent: none, the values it was sent, or values of its own
SpiderCredentialValues(KeyValueInfoList, any) ==
    IF any THEN {<<>>, KeyValueInfoList, <<[Key |-> "k", Value |-> "other"]>>}
    ELSE {<<>>}

\* utility.go:638-690: push the credential to the broker, look the provider up
\* in the catalog and fetch the broker's region list
RCPushCredentialIn(p, any) ==
    /\ rc[p].pc = "pushCredential"
    /\ \E credentialOk \in BOOLEAN, regionListOk \in BOOLEAN,
          KeyValueInfoList \in SpiderCredentialValues(rc[p].decrypted, any) :
          LET sent == [rc EXCEPT ![p].pushed = TRUE, ![p].decrypted = <<>>]
              callResult == [sent EXCEPT ![p].ret = MaskValues(KeyValueInfoList)]
              Back(calls, e) ==
                  [calls EXCEPT ![p] = [IdleCall EXCEPT !.pc = "done", !.token = calls[p].token,
                                           !.found = calls[p].found, !.err = e,
                                           !.pushed = calls[p].pushed, !.ret = calls[p].ret]]
          IN  IF ~credentialOk THEN rc' = Back(sent, "broker: credential")
              ELSE IF rc[p].provider \notin DOMAIN RuntimeCloudInfo
              THEN rc' = Back(callResult, "cloudType not found")
              ELSE IF ~regionListOk THEN rc' = Back(callResult, "broker: region list")
              ELSE rc' = [callResult EXCEPT ![p].pc = "registerConns"]
    /\ UNCHANGED <<privateKeyStore, nextToken, connStore, callsMade>>

\* utility.go:638-690, with a broker that answers without key-value list
RCPushCredential(p) == RCPushCredentialIn(p, FALSE)

\* utility.go:638-690, with any broker
RCPushCredentialAny(p) == RCPushCredentialIn(p, TRUE)

\* the generated credential name, utility.go:627-631
CredentialName(holder, provider) ==
    IF holder = DefaultCredentialHolder THEN <<provider>> ELSE <<holder>> \o Dash \o <<provider>>

\* utility.go:691-711: one RegisterConnectionConfig per broker region of the
\* provider, in list order; the first failure returns from RegisterCredential
RCRegisterConns(p) ==
    /\ rc[p].pc = "registerConns"
    /\ LET OfProvider(r) == ToLower(r.ProviderName) = <<rc[p].provider>>
           regions == SelectSeq(GetRegionList, OfProvider)
           conns == [i \in 1..Len(regions) |->
                        RegisterConnectionConfig(rc[p].holder, rc[p].provider,
                            CredentialName(rc[p].holder, rc[p].provider), regions[i])]
       IN  \E k \in 0..Len(regions) :
              /\ connStore' = PutConns(connStore, SubSeq(conns, 1, k))
              /\ IF k < Len(regions) THEN Return(p, "broker: connectionconfig")
                 ELSE Goto(p, "verify")
    /\ UNCHANGED <<privateKeyStore, nextToken, callsMade>>

\* the holder's connections of the provider of the call
FilteredConnections(store, holder, provider) ==
    LET OfProvider(c) == EqualFold(<<provider>>, c.ProviderName)
    IN  SelectSeq(GetConnConfigList(store, holder, FALSE, FALSE), OfProvider)

\* utility.go:738-751: the value a probe worker sends for one connection
ProbeResult(connConfig, reachable) ==
    LET lowered == [connConfig EXCEPT !.ProviderName = ToLower(connConfig.ProviderName)]
        region == GetRegion(lowered.ProviderName, lowered.RegionDetail.RegionName)
    IN  IF reachable /\ region.ok
        THEN [lowered EXCEPT !.Verified = TRUE, !.RegionDetail = region.detail]
        ELSE [lowered EXCEPT !.Verified = FALSE]

\* a faulty batch: the results after the first failed probe are dropped
RCVerifyUntilFailure(p) ==
    /\ rc[p].pc = "verify"
    /\ LET filtered == FilteredConnections(connStore, rc[p].holder, rc[p].provider)
       IN  \E reachable \in SUBSET (1..Len(filtered)) :
              LET results == [i \in 1..Len(filtered) |-> ProbeResult(filtered[i], i \in reachable)]
                  failed == {i \in 1..Len(results) : ~results[i].Verified}
                  kept == IF failed = {} THEN results
                          ELSE SubSeq(results, 1, (CHOOSE i \in failed : \A j \in failed : i <= j) - 1)
              IN  /\ connStore' = PutConns(connStore, kept)
                  /\ rc' = [rc EXCEPT ![p].pc = "elect",
                                      ![p].probed = {filtered[i].ConfigName : i \in reachable}]
    /\ UNCHANGED <<privateKeyStore, nextToken, callsMade>>

\* utility.go:713-774: probe every connection of the holder and the provider
\* and store the verified ones
RCVerify(p) ==
    /\ rc[p].pc = "verify"
    /\ LET filtered == FilteredConnections(connStore, rc[p].holder, rc[p].provider)
       IN  \E reachable \in SUBSET (1..Len(filtered)) :
              LET results == [i \in 1..Len(filtered) |-> ProbeResult(filtered[i], i \in reachable)]
                  IsVerified(c) == c.Verified
              IN  /\ connStore' = PutConns(connStore, SelectSeq(results, IsVerified))
                  /\ rc' = [rc EXCEPT ![p].pc = "elect",
                                      ![p].probed = {filtered[i].ConfigName : i \in reachable}]
    /\ UNCHANGED <<privateKeyStore, nextToken, callsMade>>

\* utility.go:793-794: is this connection the region-only one of its region
IsRegionOnly(provider, connConfig) ==
    EqualFold(connConfig.RegionZoneInfoName,
              <<provider>> \o Dash \o connConfig.RegionDetail.RegionName)

\* a faulty election: every connection whose region zone name starts with the
\* region's prefix is taken, and they are not told apart by prefix
RegionRepresentativesByPrefix(provider, allConnections) ==
    LET Matches(c) == HasPrefix(ToLower(c.RegionZoneInfoName),
                                <<provider>> \o Dash \o c.RegionDetail.RegionName)
    IN  SelectSeq(allConnections, Matches)

\* a faulty election: only a verified region-only connection is taken
RegionRepresentativesVerified(provider, allConnections) ==
    LET Prefix(c) == <<provider>> \o Dash \o c.RegionDetail.RegionName
        First(i) == /\ IsRegionOnly(provider, allConnections[i])
                    /\ allConnections[i].Verified
                    /\ \A j \in 1..(i - 1) :
                          ~(/\ IsRegionOnly(provider, allConnections[j])
                            /\ Prefix(allConnections[j]) = Prefix(allConnections[i]))
        picked == SelectSeq([i \in 1..Len(allConnections) |-> i], First)
    IN  [i \in 1..Len(picked) |-> allConnections[picked[i]]]

\* utility.go:791-799: the first region-only connection of every prefix
RegionRepresentatives(provider, allConnections) ==
    LET Prefix(c) == <<provider>> \o Dash \o c.RegionDetail.RegionName
        First(i) == /\ IsRegionOnly(provider, allConnections[i])
                    /\ \A j \in 1..(i - 1) :
                          ~(/\ IsRegionOnly(provider, allConnections[j])
                            /\ Prefix(allConnections[j]) = Prefix(allConnections[i]))
        picked == SelectSeq([i \in 1..Len(allConnections) |-> i], First)
    IN  [i \in 1..Len(picked) |-> allConnections[picked[i]]]

\* utility.go:776-812: mark one region representative per region and store it
RCElect(p) ==
    /\ rc[p].pc = "elect"
    /\ LET allConnections == GetConnConfigList(connStore, rc[p].holder, FALSE, FALSE)
           reps == RegionRepresentatives(rc[p].provider, allConnections)
       IN  connStore' = PutConns(connStore,
               [i \in 1..Len(reps) |-> [reps[i] EXCEPT !.RegionRepresentative = TRUE]])
    /\ Goto(p, "rewrite")
    /\ UNCHANGED <<privateKeyStore, nextToken, callsMade>>

\* a faulty rewrite: the region zone of the last verified connection is taken,
\* whatever its ConfigName
UpdateZoneOfLast(connConfig, verifiedConnections) ==
    IF verifiedConnections = <<>> THEN connConfig
    ELSE LET last == verifiedConnections[Len(verifiedConnections)]
         IN  [connConfig EXCEPT !.RegionZoneInfoName = last.RegionZoneInfoName,
                                !.RegionZoneInfo = last.RegionZoneInfo]

\* utility.go:824-838: an unverified representative takes the region zone of the
\* first verified connection whose ConfigName starts with its own
UpdateZone(connConfig, verifiedConnections) ==
    LET hits == {i \in 1..Len(verifiedConnections) :
                    HasPrefix(verifiedConnections[i].ConfigName, connConfig.ConfigName)}
    IN  IF hits = {} THEN connConfig
        ELSE LET first == verifiedConnections[CHOOSE i \in hits : \A j \in hits : i <= j]
             IN  [connConfig EXCEPT !.RegionZoneInfoName = first.RegionZoneInfoName,
                                    !.RegionZoneInfo = first.RegionZoneInfo]

\* utility.go:814-860: rewrite the unverified representatives, then return
RCRewrite(p) ==
    /\ rc[p].pc = "rewrite"
    /\ LET verifiedConnections == GetConnConfigList(connStore, rc[p].holder, TRUE, FALSE)
           reps == GetConnConfigList(connStore, rc[p].holder, FALSE, TRUE)
           Unverified(c) ==
               /\ EqualFold(<<rc[p].provider>>, c.ProviderName)
               /\ \A i \in 1..Len(verifiedConnections) :
                     ~EqualFold(c.ConfigName, verifiedConnections[i].ConfigName)
           todo == SelectSeq(reps, Unverified)
       IN  connStore' = PutConns(connStore,
               [i \in 1..Len(todo) |-> UpdateZone(todo[i], verifiedConnections)])
    /\ Return(p, "")
    /\ UNCHANGED <<privateKeyStore, nextToken, callsMade>>

InitCred ==
    /\ privateKeyStore = {}
    /\ nextToken = 0
    /\ connStore = <<>>
    /\ rc = [p \in Procs |-> IdleCall]
    /\ callsMade = 0

NextCred ==
    \/ GetPublicKeyForCredentialEncryption /\ UNCHANGED exceptCred
    \/ \E p \in Procs : RCLookup(p) /\ UNCHANGED exceptCred
    \/ \E p \in Procs : RCDecrypt(p) /\ UNCHANGED exceptCred
    \/ \E p \in Procs : RCPushCredential(p) /\ UNCHANGED exceptCred
    \/ \E p \in Procs : RCRegisterConns(p) /\ UNCHANGED exceptCred
    \/ \E p \in Procs : RCVerify(p) /\ UNCHANGED exceptCred
    \/ \E p \in Procs : RCElect(p) /\ UNCHANGED exceptCred
    \/ \E p \in Procs : RCRewrite(p) /\ UNCHANGED exceptCred

\* RegisterCredential called one call at a time, with any envelope and any
\* broker answer to the credential
NextEnvelope ==
    \/ GetPublicKeyForCredentialEncryption /\ UNCHANGED exceptCred
    \/ RCLookupAny(1) /\ UNCHANGED exceptCred
    \/ RCDecrypt(1) /\ UNCHANGED exceptCred
    \/ RCPushCredentialAny(1) /\ UNCHANGED exceptCred
    \/ RCRegisterConns(1) /\ UNCHANGED exceptCred
    \/ RCVerify(1) /\ UNCHANGED exceptCred
    \/ RCElect(1) /\ UNCHANGED exceptCred
    \/ RCRewrite(1) /\ UNCHANGED exceptCred

(* ----------------------- the probe fan-out, step by step --------------- *)
\* a results channel without a buffer
Unbuffered(n) == 0

\* utility.go:731: make(chan model.ConnConfig, len(...)): the channel has
\* room for one result of every connection
ChanCap(n) == n

\* utility.go:730-731: no worker yet, an empty results channel
IdleFan == [pc |-> "idle", n |-> 0, spawned |-> 0, exited |-> 0, buffered |-> 0,
            received |-> 0, closed |-> FALSE, closes |-> 0, late |-> 0]

\* utility.go:716-731: the filtered list has n connections; the results
\* channel is made with room for n values
FanOutBegin ==
    /\ fan.pc = "idle"
    /\ \E n \in 0..MaxProbeConfigs : fan' = [IdleFan EXCEPT !.pc = "spawn", !.n = n]
    /\ UNCHANGED exceptFan

\* utility.go:733-754: the loop starts one worker goroutine per connection,
\* without waiting for any worker
FanOutSpawn ==
    /\ fan.pc = "spawn" /\ fan.spawned < fan.n
    /\ fan' = [fan EXCEPT !.spawned = fan.spawned + 1]
    /\ UNCHANGED exceptFan

\* utility.go:735-753: a worker sleeps, probes, sends its result when the
\* channel has room for it, and ends (wg.Done)
FanOutWorker ==
    /\ fan.exited < fan.spawned
    /\ fan.buffered < ChanCap(fan.n)
    /\ fan' = [fan EXCEPT !.exited = fan.exited + 1, !.buffered = fan.buffered + 1,
                          !.late = IF fan.closed THEN fan.late + 1 ELSE fan.late]
    /\ UNCHANGED exceptFan

\* utility.go:756-761: after the loop the closer goroutine is started and the
\* handler begins to receive
FanOutCollect ==
    /\ fan.pc = "spawn" /\ fan.spawned = fan.n
    /\ fan' = [fan EXCEPT !.pc = "collect"]
    /\ UNCHANGED exceptFan

\* utility.go:756-759: wg.Wait() returns when every worker has ended; the
\* closer goroutine closes the channel and ends
FanOutClose ==
    /\ fan.pc \in {"collect", "stopped"} /\ ~fan.closed /\ fan.exited = fan.n
    /\ fan' = [fan EXCEPT !.closed = TRUE, !.closes = fan.closes + 1]
    /\ UNCHANGED exceptFan

\* utility.go:761-772: the handler takes one result from the channel
FanOutReceive ==
    /\ fan.pc = "collect" /\ fan.buffered > 0
    /\ fan' = [fan EXCEPT !.buffered = fan.buffered - 1, !.received = fan.received + 1]
    /\ UNCHANGED exceptFan

\* utility.go:762-771: the handler takes a verified result, json.Marshal or
\* kvstore.Put fails, and RegisterCredential returns without reading on
FanOutStop ==
    /\ fan.pc = "collect" /\ fan.buffered > 0
    /\ fan' = [fan EXCEPT !.buffered = fan.buffered - 1, !.received = fan.received + 1,
                          !.pc = "stopped"]
    /\ UNCHANGED exceptFan

\* utility.go:761-773: the range loop ends on the closed, drained channel
FanOutEnd ==
    /\ fan.pc = "collect" /\ fan.closed /\ fan.buffered = 0
    /\ fan' = IdleFan
    /\ UNCHANGED exceptFan

\* the goroutines of a fan-out the handler stopped reading have all ended;
\* the next RegisterCredential starts its own
FanOutLeft ==
    /\ fan.pc = "stopped" /\ fan.closed
    /\ fan' = IdleFan
    /\ UNCHANGED exceptFan

InitFanOut == fan = IdleFan

NextFanOut ==
    \/ FanOutBegin
    \/ FanOutSpawn
    \/ FanOutWorker
    \/ FanOutCollect
    \/ FanOutClose
    \/ FanOutReceive
    \/ FanOutStop
    \/ FanOutEnd
    \/ FanOutLeft

(* ------------------ claims on the connection registry ------------------ *)
StoredConns == {connStore[k] : k \in DOMAIN connStore}

SameRegion(c1, c2) ==
    /\ EqualFold(c1.ProviderName, c2.ProviderName)
    /\ c1.RegionDetail.RegionName = c2.RegionDetail.RegionName

\* C1: when a RegisterCredential call that found its token in privateKeyStore
\* has returned, with success or with any error, the token's entry is gone
C1_TokenAbsentAfterReturn ==
    \A p \in Procs :
        (rc[p].pc = "done" /\ rc[p].found) => rc[p].token \notin privateKeyStore

\* C2 as stated: for every (provider, region) at most one stored ConnConfig,
\* of whatever credential holder, is region representative
C2_OneRepresentativePerRegion ==
    \A c1, c2 \in StoredConns :
        (c1.RegionRepresentative /\ c2.RegionRepresentative /\ SameRegion(c1, c2))
            => c1 = c2

\* C2 amended: for every (credential holder, provider, region) at most one
\* stored ConnConfig is region representative
C2_OneRepresentativePerHolderRegion ==
    \A c1, c2 \in StoredConns :
        (/\ c1.RegionRepresentative /\ c2.RegionRepresentative
         /\ SameRegion(c1, c2)
         /\ c1.CredentialHolder = c2.CredentialHolder)
            => c1 = c2

\* C2 witness: two holders registered the same provider, each holds the
\* representative of the same region, and a zoned sibling is stored beside one
C2_TwoHoldersRepresented ==
    \E c1, c2, c3 \in StoredConns :
        /\ c1.RegionRepresentative /\ c2.RegionRepresentative
        /\ SameRegion(c1, c2) /\ c1.CredentialHolder # c2.CredentialHolder
        /\ SameRegion(c1, c3) /\ c3.CredentialHolder = c1.CredentialHolder
        /\ c3 # c1 /\ c3.Verified
        /\ \A p \in Procs : rc[p].pc = "done"


(* ------------------------------ vNet store ----------------------------- *)
NsId == "ns1"
VNetIds == {<<"vnet1">>}
\* the names a vNet request gives its subnets
SubnetNames == [i \in 1..MaxSubnets |-> <<"sn", i>>]
\* the SystemIds the broker reports for a VPC: one broker that always answers
\* with the same id, or (any) a broker that may answer with another one
BrokerVpcIds(any) == IF any THEN {"vpc-a", "vpc-b"} ELSE {"vpc-a"}

\* GenResourceKey for resourceType vNet
GenResourceKey(nsId, resourceId) ==
    <<"/ns/", nsId, "/resources/", "vNet", "/">> \o resourceId

\* GenChildResourceKey for resourceType subnet
GenChildResourceKey(nsId, parentResourceId, resourceId) ==
    <<"/ns/", nsId, "/resources/", "vNet", "/">> \o parentResourceId
        \o <<"/", "subnet", "/">> \o resourceId

\* every adopted subnet under one and the same Id
RegSubnetIdOfFirst(n) == <<"reg-subnet-", 0, 1>>

\* fmt.Sprintf("reg-subnet-%02d", n)
RegSubnetId(n) == <<"reg-subnet-", n \div 10, n % 10>>

\* kvstore.Put and kvstore.Delete
Put(store, k, v) == [x \in (DOMAIN store) \cup {k} |-> IF x = k THEN v ELSE store[x]]
Delete(store, k) == [x \in (DOMAIN store) \ {k} |-> store[x]]

\* every subnet id a handler can write, in the order the store lists the keys
SubnetIdOrder == [i \in 1..MaxSubnets |-> RegSubnetId(i)] \o SubnetNames

\* kvstore.GetKvList(vNetKey + "/subnet"): the stored subnets of a vNet
GetKvList(store, nsId, vNetId) ==
    LET prefix == GenResourceKey(nsId, vNetId) \o <<"/", "subnet">>
        IsStored(s) == /\ GenChildResourceKey(nsId, vNetId, s) \in DOMAIN store
                       /\ HasPrefix(GenChildResourceKey(nsId, vNetId, s), prefix)
        ids == SelectSeq(SubnetIdOrder, IsStored)
    IN  [i \in 1..Len(ids) |-> store[GenChildResourceKey(nsId, vNetId, ids[i])]]

\* kvstore.GetKv(vNetKey) != kvstore.KeyValue{}: a value is stored under the vNet key
HasVNet(store, nsId, vNetId) == GenResourceKey(nsId, vNetId) \in DOMAIN store

\* CheckResource: is there an object under the resource's key
CheckResource(store, nsId, resourceId) == GenResourceKey(nsId, resourceId) \in DOMAIN store

(* ------------------------- requests and validation -------------------- *)
\* a CIDR block: the first address and the prefix length
Cidr(addr, len) == [addr |-> addr, len |-> len]
NoCidr == [addr |-> 0, len |-> 0 - 1]

\* netutil: is the block inner inside the block outer
CidrContains(outer, inner) ==
    /\ outer.len \in 0..AddrBits /\ inner.len \in 0..AddrBits
    /\ inner.len >= outer.len
    /\ inner.addr \div (2 ^ (AddrBits - outer.len)) = outer.addr \div (2 ^ (AddrBits - outer.len))

\* netutil.ValidateNetwork: every subnet block lies inside the network's block
ValidateNetwork(cidrBlock, subnetCidrs) ==
    \A i \in 1..Len(subnetCidrs) : CidrContains(cidrBlock, subnetCidrs[i])

\* the block of a vNet request and the blocks of its subnets: the i-th subnet
\* inside the vNet's block, or (outside) in the other half of the address space
VNetCidr == Cidr(0, 1)
SubnetCidr(i, outside) == Cidr((IF outside THEN 2 ^ (AddrBits - 1) ELSE 0) + (i - 1), AddrBits)

\* strings.SplitN(s, "-", 2)
SplitN2(s) ==
    LET dashes == {i \in 1..Len(s) : s[i] = "-"}
    IN  IF dashes = {} THEN <<s>>
        ELSE LET d == CHOOSE i \in dashes : \A j \in dashes : i <= j
             IN  <<SubSeq(s, 1, d - 1), SubSeq(s, d + 1, Len(s))>>

\* ContainsZone
ContainsZone(zones, zone) == \E i \in 1..Len(zones) : zones[i] = zone

\* ValidateVNetReq, part_002:77-143: "" when the request is accepted
ValidateVNetReq(vNetReq) ==
    IF Len(vNetReq.SubnetInfoList) = 0 THEN "at least one subnet is required"
    ELSE LET parts == SplitN2(vNetReq.ConnectionName)
         IN  IF Len(parts) < 2 THEN "panic: index out of range"
             ELSE LET region == GetRegion(parts[1], parts[2])
                      zones == region.detail.Zones
                  IN  IF ~region.ok THEN "region not found"
                      ELSE IF \E i \in 1..Len(vNetReq.SubnetInfoList) :
                                 /\ vNetReq.SubnetInfoList[i].Zone # ""
                                 /\ ~ContainsZone(zones, vNetReq.SubnetInfoList[i].Zone)
                      THEN "invalid zone"
                      ELSE IF ~ValidateNetwork(vNetReq.CidrBlock,
                                  [i \in 1..Len(vNetReq.SubnetInfoList) |->
                                      vNetReq.SubnetInfoList[i].IPv4_CIDR])
                      THEN "invalid network"
                      ELSE ""

\* the connection names of vNet requests
ConnectionNames(any) ==
    IF any THEN {<<"aws", "-", "r1">>, <<"bob", "-", "aws", "-", "r1">>, <<"aws">>}
    ELSE {<<"aws", "-", "r1">>}

\* the zones vNet requests name for a subnet ("z" is no zone of any region)
ZoneInputs(any) == IF any THEN {"", "a", "z"} ELSE {""}

\* TbVNetReq: the requests clients send; (any) also requests no validation
\* would accept
VNetReqs(any) ==
    {[Name |-> id, ConnectionName |-> c, CidrBlock |-> VNetCidr,
      SubnetInfoList |-> [i \in 1..n |->
          [Name |-> SubnetNames[i], IPv4_CIDR |-> SubnetCidr(i, i \in out), Zone |-> z[i]]]] :
        id \in VNetIds, c \in ConnectionNames(any),
        n \in (IF any THEN 0 ELSE 1)..MaxSubnets,
        out \in (IF any THEN SUBSET (1..MaxSubnets) ELSE {{}}),
        z \in [1..MaxSubnets -> ZoneInputs(any)]}

NoVNet == [Id |-> <<>>, Uuid |-> 0, Status |-> "", CspVNetId |-> "", CspVNetName |-> 0,
           ConnectionName |-> <<>>, CidrBlock |-> NoCidr, SubnetInfoList |-> <<>>]

\* no request
NoReq == [Name |-> <<>>, ConnectionName |-> <<>>, CidrBlock |-> NoCidr, SubnetInfoList |-> <<>>]

\* a call record; valid: ValidateVNetReq accepts the request of the call;
\* reqCidr: the CidrBlock of the request, which the handler sends to the broker;
\* req: the request of the CreateVNet in progress; created: the request of
\* the last CreateVNet of this handler that returned success
IdleVNet == [pc |-> "idle", op |-> "", id |-> <<>>, ws |-> "", info |-> NoVNet, todo |-> <<>>,
             err |-> "", called |-> FALSE, acked |-> FALSE, lastPut |-> "", wrote |-> FALSE,
             absent0 |-> FALSE, subnets0 |-> FALSE, isolated |-> FALSE, valid |-> FALSE,
             reqCidr |-> NoCidr, req |-> NoReq, created |-> NoReq]

\* a handler is entered: the call record of p is set, and the calls of the
\* other handlers are no longer alone
Begin(p, call) ==
    /\ vn[p].pc \in {"idle", "done"}
    /\ vnCalls < MaxVNetCalls
    /\ vnCalls' = vnCalls + 1
    /\ vn' = [q \in Procs |->
                IF q = p
                THEN [call EXCEPT !.isolated = \A o \in Procs \ {p} : vn[o].pc \in {"idle", "done"},
                                  !.created = vn[p].created]
                ELSE [vn[q] EXCEPT !.isolated = FALSE]]

\* the handler of p returns with error e ("" is success)
VReturn(call, e) ==
    [call EXCEPT !.pc = "done", !.err = e, !.todo = <<>>, !.info = NoVNet, !.reqCidr = NoCidr,
                 !.req = NoReq,
                 !.created = IF call.op = "create" /\ e = "" THEN call.req ELSE call.created]

(* ------------------------------- broker -------------------------------- *)
Reverse(s) == [i \in 1..Len(s) |-> s[Len(s) + 1 - i]]

\* a subnet as the broker reports it: IId{NameId, SystemId}, IPv4_CIDR, Zone
SpiderSubnetInfo(name, cidr, zone) ==
    [IId |-> [NameId |-> name, SystemId |-> <<"csp-subnet", name>>],
     IPv4_CIDR |-> cidr, Zone |-> zone]

\* the sub-sequence of s at the indices in keep
Pick(s, keep) ==
    LET In(i) == i \in keep
        idx == SelectSeq([i \in 1..Len(s) |-> i], In)
    IN  [k \in 1..Len(idx) |-> s[idx[k]]]

\* spiderVPCInfo answers to POST /vpc. A broker that echoes the request
\* answers with every subnet of the request, in request order or reversed;
\* (any) broker may also answer with another SystemId, leave subnets out, add
\* one the request did not name, and report other blocks and zones
SpiderCreateVPC(spReqt, any) ==
    LET subs == spReqt.SubnetInfoList
        Echo(i) == SpiderSubnetInfo(subs[i].Name, subs[i].IPv4_CIDR, subs[i].Zone)
        Other(i) == SpiderSubnetInfo(subs[i].Name, SubnetCidr(i, TRUE), "z")
        List(other) == [i \in 1..Len(subs) |-> IF other THEN Other(i) ELSE Echo(i)]
        extra == SpiderSubnetInfo(0, SubnetCidr(1, FALSE), "a")
    IN  {[IId |-> [NameId |-> spReqt.Name, SystemId |-> s],
          IPv4_CIDR |-> IF other THEN Cidr(2 ^ (AddrBits - 1), 1) ELSE spReqt.IPv4_CIDR,
          SubnetInfoList |-> (IF rev THEN Reverse(Pick(List(other), keep))
                              ELSE Pick(List(other), keep))
                             \o (IF added THEN <<extra>> ELSE <<>>)] :
            s \in BrokerVpcIds(any),
            keep \in (IF any THEN SUBSET (1..Len(subs)) ELSE {1..Len(subs)}),
            rev \in BOOLEAN,
            added \in (IF any THEN BOOLEAN ELSE {FALSE}),
            other \in (IF any THEN BOOLEAN ELSE {FALSE})}

\* spiderVPCInfo answers to POST /regvpc: a VPC that exists at the CSP, with
\* the subnets it has there
SpiderRegisterVPC(name, any) ==
    {[IId |-> [NameId |-> name, SystemId |-> s],
      IPv4_CIDR |-> VNetCidr,
      SubnetInfoList |-> [i \in 1..n |-> SpiderSubnetInfo(<<"ext", i>>, SubnetCidr(i, FALSE), "a")]] :
        s \in BrokerVpcIds(any), n \in 0..MaxSubnets}

\* spiderVPCInfo answers to GET /vpc/<name>
SpiderGetVPC(name, cidr, any) ==
    {[IId |-> [NameId |-> name, SystemId |-> s], IPv4_CIDR |-> cidr, SubnetInfoList |-> <<>>] :
        s \in BrokerVpcIds(any)}

\* spiderBooleanInfoResp.Result of a DELETE, or a failed request
SpiderDeleteResults == {"error", "true", "false", "unparsable"}

(* ------------------------------ CreateVNet ----------------------------- *)
NewSubnet(subnetInfo, uuid) ==
    [Id |-> subnetInfo.Name, Uuid |-> uuid, Status |-> "", CspVNetId |-> "", CspVNetName |-> 0,
     CspSubnetId |-> <<>>, CspSubnetName |-> 0,
     IPv4_CIDR |-> subnetInfo.IPv4_CIDR, Zone |-> subnetInfo.Zone]

\* the call record a handler starts with: what the store held under the Id
Enter(op, id, ws) ==
    [IdleVNet EXCEPT !.op = op, !.id = id, !.ws = ws,
                     !.absent0 = ~HasVNet(kv, NsId, id),
                     !.subnets0 = GetKvList(kv, NsId, id) # <<>>]

\* part_002:283-318: the existence check and the vNet object with its uids;
\* the call record notes whether ValidateVNetReq would accept the request
CreateVNetEnter(p, checked, any) ==
    \E vNetReq \in VNetReqs(any) :
        LET n == Len(vNetReq.SubnetInfoList)
            id == vNetReq.Name
            info == [NoVNet EXCEPT !.Id = id, !.Uuid = nextUid + 1,
                        !.ConnectionName = vNetReq.ConnectionName,
                        !.SubnetInfoList = [i \in 1..n |->
                            NewSubnet(vNetReq.SubnetInfoList[i], nextUid + 1 + i)]]
            call == [Enter("create", id, "") EXCEPT !.valid = (ValidateVNetReq(vNetReq) = "")]
        IN  IF checked /\ CheckResource(kv, NsId, id)
            THEN /\ Begin(p, VReturn(call, "already exists"))
                 /\ UNCHANGED <<kv, nextUid>>
            ELSE /\ nextUid + 1 + n <= MaxUid
                 /\ Begin(p, [call EXCEPT !.pc = "cPutIntent", !.info = info,
                                          !.reqCidr = vNetReq.CidrBlock, !.req = vNetReq])
                 /\ nextUid' = nextUid + 1 + n
                 /\ UNCHANGED kv

\* a CreateVNet that never looks whether the vNet exists
CreateVNetUnchecked(p) == CreateVNetEnter(p, FALSE, FALSE)

\* part_002:256-318
CreateVNetCheck(p) == CreateVNetEnter(p, TRUE, FALSE)

\* part_002:256-318, for any request
CreateVNetCheckAny(p) == CreateVNetEnter(p, TRUE, TRUE)

\* a handler persists its local vNet object under the vNet key
PutVNet(p, status, next, todo) ==
    LET info == [vn[p].info EXCEPT !.Status = status]
    IN  /\ kv' = Put(kv, GenResourceKey(NsId, vn[p].id), info)
        /\ vn' = [vn EXCEPT ![p].info = info, ![p].pc = next, ![p].lastPut = status,
                            ![p].wrote = TRUE, ![p].todo = todo]
        /\ UNCHANGED <<nextUid, vnCalls>>

\* part_002:322-335: persist the vNet as Configuring
CreateVNetPutIntent(p) ==
    /\ vn[p].pc = "cPutIntent"
    /\ PutVNet(p, "Configuring", "cBroker", <<>>)

\* the response subnets taken by their position in the list
ReconcileByPosition(vNetInfo, spResp) ==
    LET sps == spResp.SubnetInfoList
        Update(i) ==
            IF i > Len(sps) THEN vNetInfo.SubnetInfoList[i]
            ELSE [vNetInfo.SubnetInfoList[i] EXCEPT
                     !.CspVNetId = spResp.IId.SystemId,
                     !.CspVNetName = spResp.IId.NameId,
                     !.Status = "Available",
                     !.CspSubnetId = sps[i].IId.SystemId,
                     !.CspSubnetName = sps[i].IId.NameId,
                     !.Zone = sps[i].Zone,
                     !.IPv4_CIDR = sps[i].IPv4_CIDR]
        subs == [i \in 1..Len(vNetInfo.SubnetInfoList) |-> Update(i)]
    IN  [vNetInfo EXCEPT !.CspVNetId = spResp.IId.SystemId,
                         !.CspVNetName = spResp.IId.NameId,
                         !.CidrBlock = spResp.IPv4_CIDR,
                         !.SubnetInfoList = subs,
                         !.Status = IF Len(subs) = 0 THEN "Available" ELSE "InUse"]

\* part_002:379-413: CSP identifiers from the response, subnets matched by
\* the uid sent as their name, then the status
ReconcileCreate(vNetInfo, spResp) ==
    LET sps == spResp.SubnetInfoList
        Hits(sub) == {j \in 1..Len(sps) : sps[j].IId.NameId = sub.Uuid}
        Update(sub) ==
            IF Hits(sub) = {} THEN sub
            ELSE LET sp == sps[CHOOSE j \in Hits(sub) : \A o \in Hits(sub) : o <= j]
                 IN  [sub EXCEPT !.CspVNetId = spResp.IId.SystemId,
                                 !.CspVNetName = spResp.IId.NameId,
                                 !.Status = "Available",
                                 !.CspSubnetId = sp.IId.SystemId,
                                 !.CspSubnetName = sp.IId.NameId,
                                 !.Zone = sp.Zone,
                                 !.IPv4_CIDR = sp.IPv4_CIDR]
        subs == [i \in 1..Len(vNetInfo.SubnetInfoList) |-> Update(vNetInfo.SubnetInfoList[i])]
    IN  [vNetInfo EXCEPT !.CspVNetId = spResp.IId.SystemId,
                         !.CspVNetName = spResp.IId.NameId,
                         !.CidrBlock = spResp.IPv4_CIDR,
                         !.SubnetInfoList = subs,
                         !.Status = IF Len(subs) = 0 THEN "Available" ELSE "InUse"]

\* part_002:337-413: POST /vpc; a failed request returns the error at once
CreateVNetBrokerIn(p, any) ==
    /\ vn[p].pc = "cBroker"
    /\ LET subs == vn[p].info.SubnetInfoList
           spReqt == [Name |-> vn[p].info.Uuid, IPv4_CIDR |-> vn[p].reqCidr,
                      SubnetInfoList |-> [i \in 1..Len(subs) |->
                          [Name |-> subs[i].Uuid, IPv4_CIDR |-> subs[i].IPv4_CIDR,
                           Zone |-> subs[i].Zone]]]
       IN  \/ vn' = [vn EXCEPT ![p] = VReturn([vn[p] EXCEPT !.called = TRUE], "broker")]
           \/ \E spResp \in SpiderCreateVPC(spReqt, any) :
                 vn' = [vn EXCEPT ![p].called = TRUE, ![p].acked = TRUE, ![p].pc = "cPutFinal",
                                  ![p].info = ReconcileCreate(vn[p].info, spResp)]
    /\ UNCHANGED <<kv, nextUid, vnCalls>>

\* part_002:337-413, with a broker that echoes the request
CreateVNetBroker(p) == CreateVNetBrokerIn(p, FALSE)

\* part_002:337-413, with any broker
CreateVNetBrokerAny(p) == CreateVNetBrokerIn(p, TRUE)

\* part_002:417-428: persist the vNet with the status set from the response
CreateVNetPutFinal(p) ==
    /\ vn[p].pc = "cPutFinal"
    /\ PutVNet(p, vn[p].info.Status,
               IF vn[p].info.SubnetInfoList = <<>> THEN "cReadBack" ELSE "cPutSubnet",
               vn[p].info.SubnetInfoList)

\* part_002:430-445: persist the subnets, one Put each
CreateVNetPutSubnet(p) ==
    /\ vn[p].pc = "cPutSubnet"
    /\ kv' = Put(kv, GenChildResourceKey(NsId, vn[p].id, Head(vn[p].todo).Id), Head(vn[p].todo))
    /\ vn' = [vn EXCEPT ![p].todo = Tail(vn[p].todo),
                        ![p].pc = IF Tail(vn[p].todo) = <<>> THEN "cReadBack" ELSE "cPutSubnet"]
    /\ UNCHANGED <<nextUid, vnCalls>>

\* part_002:447-467: read the stored vNet back and return it
ReadBack(p) ==
    /\ IF HasVNet(kv, NsId, vn[p].id)
       THEN vn' = [vn EXCEPT ![p] = VReturn([vn[p] EXCEPT !.info = kv[GenResourceKey(NsId, vn[p].id)]], "")]
       ELSE vn' = [vn EXCEPT ![p] = VReturn(vn[p], "does not exist")]
    /\ UNCHANGED <<kv, nextUid, vnCalls>>

CreateVNetReadBack(p) ==
    /\ vn[p].pc = "cReadBack"
    /\ ReadBack(p)

(* -------------------------------- GetVNet ------------------------------ *)
\* part_002:470-511: read the stored vNet
GetVNetRead(p) ==
    /\ \E id \in VNetIds :
          IF HasVNet(kv, NsId, id)
          THEN Begin(p, [Enter("get", id, "") EXCEPT !.pc = "gBroker",
                                                     !.info = kv[GenResourceKey(NsId, id)]])
          ELSE Begin(p, VReturn(Enter("get", id, ""), "does not exist"))
    /\ UNCHANGED <<kv, nextUid>>

\* part_002:513-545: GET /vpc/<CspVNetName>, CSP identifiers from the response
GetVNetBrokerIn(p, any) ==
    /\ vn[p].pc = "gBroker"
    /\ \/ vn' = [vn EXCEPT ![p] = VReturn([vn[p] EXCEPT !.called = TRUE], "broker")]
       \/ \E spResp \in SpiderGetVPC(vn[p].info.CspVNetName, vn[p].info.CidrBlock, any) :
             vn' = [vn EXCEPT ![p].called = TRUE, ![p].acked = TRUE, ![p].pc = "gPut",
                              ![p].info = [vn[p].info EXCEPT
                                              !.CspVNetId = spResp.IId.SystemId,
                                              !.CspVNetName = spResp.IId.NameId,
                                              !.CidrBlock = spResp.IPv4_CIDR]]
    /\ UNCHANGED <<kv, nextUid, vnCalls>>

\* part_002:513-545, with a broker that reports what it reported before
GetVNetBroker(p) == GetVNetBrokerIn(p, FALSE)

\* part_002:513-545, with any broker
GetVNetBrokerAny(p) == GetVNetBrokerIn(p, TRUE)

\* part_002:547-560: store the refreshed object, with the status it was read with
GetVNetPut(p) ==
    /\ vn[p].pc = "gPut"
    /\ kv' = Put(kv, GenResourceKey(NsId, vn[p].id), vn[p].info)
    /\ vn' = [vn EXCEPT ![p] = VReturn([vn[p] EXCEPT !.wrote = TRUE,
                                                     !.lastPut = vn[p].info.Status], "")]
    /\ UNCHANGED <<nextUid, vnCalls>>

(* ----------------------- DeleteVNet, DeregisterVNet -------------------- *)
WithSubnetsInputs == {"", "true", "false", "yes"}

\* part_002:586-610 and 918-942: the option, the stored subnets, the in-use guard
ListSubnetsGuarded(p, op, guarded) ==
    /\ \E id \in VNetIds, withSubnets \in WithSubnetsInputs :
          LET call == Enter(op, id, withSubnets)
              ws == IF withSubnets = "" THEN "false" ELSE withSubnets
              subnetsKv == GetKvList(kv, NsId, id)
          IN  IF ws \notin {"true", "false"}
              THEN Begin(p, VReturn(call, "invalid option"))
              ELSE IF guarded /\ ws = "false" /\ Len(subnetsKv) > 0
              THEN Begin(p, VReturn(call, "in-use"))
              ELSE Begin(p, [call EXCEPT !.pc = IF subnetsKv = <<>> THEN "dRead" ELSE "dSubnet",
                                         !.todo = [i \in 1..Len(subnetsKv) |-> subnetsKv[i].Id]])
    /\ UNCHANGED <<kv, nextUid>>

\* a delete that goes on although subnets are stored and withSubnets is false
ListSubnetsUnguarded(p, op) == ListSubnetsGuarded(p, op, FALSE)

\* part_002:586-610 and 918-942
ListSubnets(p, op) == ListSubnetsGuarded(p, op, TRUE)

\* DeleteSubnet: the broker deletes the subnet, then the subnet's key is removed;
\* a subnet that is not stored, or a failed request, is an error
DeleteSubnet(store, nsId, vNetId, subnetId, brokerOk) ==
    LET key == GenChildResourceKey(nsId, vNetId, subnetId)
    IN  IF key \notin DOMAIN store THEN [err |-> "does not exist, subnet", store |-> store, called |-> FALSE]
        ELSE IF ~brokerOk THEN [err |-> "broker", store |-> store, called |-> TRUE]
        ELSE [err |-> "", store |-> Delete(store, key), called |-> TRUE]

\* part_002:612-625 and 944-957: delete the listed subnets, one DeleteSubnet each
DeleteSubnets(p) ==
    /\ vn[p].pc = "dSubnet"
    /\ \E brokerOk \in BOOLEAN :
          LET r == DeleteSubnet(kv, NsId, vn[p].id, Head(vn[p].todo), brokerOk)
              call == [vn[p] EXCEPT !.called = vn[p].called \/ r.called,
                                    !.wrote = vn[p].wrote \/ r.store # kv]
          IN  /\ kv' = r.store
              /\ IF r.err # ""
                 THEN vn' = [vn EXCEPT ![p] = VReturn(call, r.err)]
                 ELSE vn' = [vn EXCEPT ![p] = [call EXCEPT
                                 !.todo = Tail(vn[p].todo),
                                 !.pc = IF Tail(vn[p].todo) = <<>> THEN "dRead" ELSE "dSubnet"]]
    /\ UNCHANGED <<nextUid, vnCalls>>

\* part_002:627-645 and 959-977: read the stored vNet
ReadVNet(p) ==
    /\ vn[p].pc = "dRead"
    /\ IF HasVNet(kv, NsId, vn[p].id)
       THEN vn' = [vn EXCEPT ![p].pc = "dPutIntent", ![p].info = kv[GenResourceKey(NsId, vn[p].id)]]
       ELSE vn' = [vn EXCEPT ![p] = VReturn(vn[p], "does not exist")]
    /\ UNCHANGED <<kv, nextUid, vnCalls>>

\* part_002:647-659 and 979-991: both handlers persist NetworkOnDeleting
PutDeleting(p) ==
    /\ vn[p].pc = "dPutIntent"
    /\ PutVNet(p, "Deleting", "dBroker", <<>>)

\* part_002:661-697 and 993-1029: DELETE /vpc/<name> or /regvpc/<name>; a failed
\* request, an unparsable Result and Result false each return an error
DeleteBroker(p) ==
    /\ vn[p].pc = "dBroker"
    /\ \E result \in SpiderDeleteResults :
          IF result = "true"
          THEN vn' = [vn EXCEPT ![p].called = TRUE, ![p].acked = TRUE, ![p].pc = "dDeleteKey"]
          ELSE vn' = [vn EXCEPT ![p] = VReturn([vn[p] EXCEPT !.called = TRUE],
                          IF result = "false" THEN "failed to delete" ELSE "broker")]
    /\ UNCHANGED <<kv, nextUid, vnCalls>>

\* part_002:699-709 and 1031-1041: remove the vNet key and return the message
DeleteKey(p) ==
    /\ vn[p].pc = "dDeleteKey"
    /\ kv' = Delete(kv, GenResourceKey(NsId, vn[p].id))
    /\ vn' = [vn EXCEPT ![p] = VReturn([vn[p] EXCEPT !.wrote = TRUE, !.lastPut = "<deleted>"], "")]
    /\ UNCHANGED <<nextUid, vnCalls>>

\* part_002:564-610
DeleteVNetList(p) == ListSubnets(p, "delete")
\* part_002:896-942
DeregisterVNetList(p) == ListSubnets(p, "deregister")

(* ------------------------------ RegisterVNet --------------------------- *)
\* part_002:740-759: the vNet object and the existence check
RegisterVNetCheck(p) ==
    \E id \in VNetIds :
        IF CheckResource(kv, NsId, id)
        THEN /\ Begin(p, VReturn(Enter("register", id, ""), "already exists"))
             /\ UNCHANGED <<kv, nextUid>>
        ELSE /\ nextUid + 2 <= MaxUid
             /\ Begin(p, [Enter("register", id, "") EXCEPT !.pc = "rPutIntent",
                             !.info = [NoVNet EXCEPT !.Id = id, !.Uuid = nextUid + 1,
                                          !.ConnectionName = <<"aws", "-", "r1">>]])
             /\ nextUid' = nextUid + 2
             /\ UNCHANGED kv

\* part_002:761-773: persist the vNet as Registering
RegisterVNetPutIntent(p) ==
    /\ vn[p].pc = "rPutIntent"
    /\ PutVNet(p, "Registering", "rBroker", <<>>)

\* part_002:775-822: POST /regvpc under a fresh uid as name
RegisterVNetBrokerIn(p, any) ==
    /\ vn[p].pc = "rBroker"
    /\ \/ vn' = [vn EXCEPT ![p] = VReturn([vn[p] EXCEPT !.called = TRUE], "broker")]
       \/ \E spResp \in SpiderRegisterVPC(vn[p].info.Uuid + 1, any) :
             vn' = [vn EXCEPT ![p].called = TRUE, ![p].acked = TRUE,
                              ![p].pc = IF spResp.SubnetInfoList = <<>> THEN "rPutFinal" ELSE "rPutSubnet",
                              ![p].todo = spResp.SubnetInfoList,
                              ![p].info = [vn[p].info EXCEPT
                                              !.CspVNetId = spResp.IId.SystemId,
                                              !.CspVNetName = spResp.IId.NameId,
                                              !.CidrBlock = spResp.IPv4_CIDR]]
    /\ UNCHANGED <<kv, nextUid, vnCalls>>

\* part_002:775-822, with a broker that always reports the same SystemId
RegisterVNetBroker(p) == RegisterVNetBrokerIn(p, FALSE)

\* part_002:775-822, with any broker
RegisterVNetBrokerAny(p) == RegisterVNetBrokerIn(p, TRUE)

\* part_002:826-855: one subnet of the response becomes reg-subnet-NN, is
\* appended to the vNet object and is stored
RegisterVNetPutSubnet(p) ==
    /\ vn[p].pc = "rPutSubnet"
    /\ LET i == Len(vn[p].info.SubnetInfoList) + 1
           spSubnetInfo == Head(vn[p].todo)
           subnet == [Id |-> RegSubnetId(i), Uuid |-> 0, Status |-> "Unknown",
                      CspVNetId |-> vn[p].info.CspVNetId, CspVNetName |-> vn[p].info.CspVNetName,
                      CspSubnetId |-> spSubnetInfo.IId.SystemId,
                      CspSubnetName |-> spSubnetInfo.IId.NameId,
                      IPv4_CIDR |-> spSubnetInfo.IPv4_CIDR, Zone |-> spSubnetInfo.Zone]
       IN  /\ kv' = Put(kv, GenChildResourceKey(NsId, vn[p].id, subnet.Id), subnet)
           /\ vn' = [vn EXCEPT ![p].todo = Tail(vn[p].todo),
                               ![p].wrote = TRUE,
                               ![p].info.SubnetInfoList = Append(vn[p].info.SubnetInfoList, subnet),
                               ![p].pc = IF Tail(vn[p].todo) = <<>> THEN "rPutFinal" ELSE "rPutSubnet"]
    /\ UNCHANGED <<nextUid, vnCalls>>

\* part_002:859-872: persist the vNet as Available
RegisterVNetPutFinal(p) ==
    /\ vn[p].pc = "rPutFinal"
    /\ PutVNet(p, "Available", "rReadBack", <<>>)

\* part_002:874-892: read the stored vNet back and return it
RegisterVNetReadBack(p) ==
    /\ vn[p].pc = "rReadBack"
    /\ ReadBack(p)

InitVNet ==
    /\ kv = <<>>
    /\ vn = [p \in Procs |-> IdleVNet]
    /\ nextUid = 0
    /\ vnCalls = 0

NextVNet ==
    \/ \E p \in Procs : CreateVNetCheck(p) /\ UNCHANGED exceptVNet
    \/ \E p \in Procs : CreateVNetPutIntent(p) /\ UNCHANGED exceptVNet
    \/ \E p \in Procs : CreateVNetBroker(p) /\ UNCHANGED exceptVNet
    \/ \E p \in Procs : CreateVNetPutFinal(p) /\ UNCHANGED exceptVNet
    \/ \E p \in Procs : CreateVNetPutSubnet(p) /\ UNCHANGED exceptVNet
    \/ \E p \in Procs : CreateVNetReadBack(p) /\ UNCHANGED exceptVNet
    \/ \E p \in Procs : GetVNetRead(p) /\ UNCHANGED exceptVNet
    \/ \E p \in Procs : GetVNetBroker(p) /\ UNCHANGED exceptVNet
    \/ \E p \in Procs : GetVNetPut(p) /\ UNCHANGED exceptVNet
    \/ \E p \in Procs : DeleteVNetList(p) /\ UNCHANGED exceptVNet
    \/ \E p \in Procs : DeregisterVNetList(p) /\ UNCHANGED exceptVNet
    \/ \E p \in Procs : DeleteSubnets(p) /\ UNCHANGED exceptVNet
    \/ \E p \in Procs : ReadVNet(p) /\ UNCHANGED exceptVNet
    \/ \E p \in Procs : PutDeleting(p) /\ UNCHANGED exceptVNet
    \/ \E p \in Procs : DeleteBroker(p) /\ UNCHANGED exceptVNet
    \/ \E p \in Procs : DeleteKey(p) /\ UNCHANGED exceptVNet
    \/ \E p \in Procs : RegisterVNetCheck(p) /\ UNCHANGED exceptVNet
    \/ \E p \in Procs : RegisterVNetPutIntent(p) /\ UNCHANGED exceptVNet
    \/ \E p \in Procs : RegisterVNetBroker(p) /\ UNCHANGED exceptVNet
    \/ \E p \in Procs : RegisterVNetPutSubnet(p) /\ UNCHANGED exceptVNet
    \/ \E p \in Procs : RegisterVNetPutFinal(p) /\ UNCHANGED exceptVNet
    \/ \E p \in Procs : RegisterVNetReadBack(p) /\ UNCHANGED exceptVNet

\* the same handlers called one at a time, with any request and any broker
\* response
NextVNetData ==
    \/ CreateVNetCheckAny(1) /\ UNCHANGED exceptVNet
    \/ CreateVNetPutIntent(1) /\ UNCHANGED exceptVNet
    \/ CreateVNetBrokerAny(1) /\ UNCHANGED exceptVNet
    \/ CreateVNetPutFinal(1) /\ UNCHANGED exceptVNet
    \/ CreateVNetPutSubnet(1) /\ UNCHANGED exceptVNet
    \/ CreateVNetReadBack(1) /\ UNCHANGED exceptVNet
    \/ GetVNetRead(1) /\ UNCHANGED exceptVNet
    \/ GetVNetBrokerAny(1) /\ UNCHANGED exceptVNet
    \/ GetVNetPut(1) /\ UNCHANGED exceptVNet
    \/ RegisterVNetCheck(1) /\ UNCHANGED exceptVNet
    \/ RegisterVNetPutIntent(1) /\ UNCHANGED exceptVNet
    \/ RegisterVNetBrokerAny(1) /\ UNCHANGED exceptVNet
    \/ RegisterVNetPutSubnet(1) /\ UNCHANGED exceptVNet
    \/ RegisterVNetPutFinal(1) /\ UNCHANGED exceptVNet
    \/ RegisterVNetReadBack(1) /\ UNCHANGED exceptVNet

(* ------------------------------- labels -------------------------------- *)
\* server.go:279-282: the label types and resource uuids a request path carries
Kinds == {"vNet", "subnet"}
Uuids == {"u1", "u2"}

\* part_000:51-54: the label maps a request body binds to
LabelMaps ==
    { [env |-> "prod", tier |-> "api"],
      [env |-> "prod", tier |-> "db"],
      [env |-> "dev"] }

LabelKeys == {"env", "tier"}

\* server.go:279-281: the route binds the path segments to the names
\* labelType and uuid (and key, for DELETE)
LabelRoute(kind, uuid) == [labelType |-> kind, uuid |-> uuid]

RemoveRoute(kind, uuid, key) == [labelType |-> kind, uuid |-> uuid, key |-> key]

\* part_000:47-48, 89-91, 120-121: c.Param(name) is the path segment the
\* route bound to that name, and the empty string for a name the route does
\* not have
Param(c, name) == IF name \in DOMAIN c THEN c[name] ELSE ""

\* part_000:57: resourceKey := fmt.Sprintf("/%s/%s", labelType, uid)
ResourceKey(labelType, uid) == <<"/", labelType, "/", uid>>

\* the label entry of one resource
LabelInfo(resourceKey, labels) == [ResourceKey |-> resourceKey, Labels |-> labels]

NoLabels == <<>>

\* label.CreateOrUpdateLabel: the full label map of the entry is replaced
CreateOrUpdateLabel(store, labelType, uid, resourceKey, labels) ==
    [k \in DOMAIN store \cup {<<labelType, uid>>} |->
        IF k = <<labelType, uid>> THEN LabelInfo(resourceKey, labels) ELSE store[k]]

\* a label map without one key
WithoutKey(labels, key) == [k \in DOMAIN labels \ {key} |-> labels[k]]

\* label.RemoveLabel: only that key is removed
RemoveLabel(store, labelType, uid, key) ==
    IF <<labelType, uid>> \in DOMAIN store
    THEN [store EXCEPT ![<<labelType, uid>>].Labels = WithoutKey(@, key)]
    ELSE store

\* label.GetLabels: the entry of the resource, empty when it has none
GetLabels(store, labelType, uid) ==
    IF <<labelType, uid>> \in DOMAIN store
    THEN store[<<labelType, uid>>]
    ELSE LabelInfo(ResourceKey(labelType, uid), NoLabels)

\* the uids that carry labels of one kind
Entities(store, kind) == {k[2] : k \in {e \in DOMAIN store : e[1] = kind}}

\* reverse index (kind, key) -> set of uids
KeyIndex(store, kind, key) ==
    {u \in Entities(store, kind) : key \in DOMAIN store[<<kind, u>>].Labels}

\* reverse index (kind, key, value) -> set of uids
ValueIndex(store, kind, key, value) ==
    {u \in KeyIndex(store, kind, key) : store[<<kind, u>>].Labels[key] = value}

\* the clauses of a selector, each a token list
Clauses ==
    { <<"env", "=", "prod">>, <<"env", "==", "prod">>, <<"env", "!=", "prod">>,
      <<"tier", "in", "api", "db">>, <<"tier", "notin", "api">>,
      <<"tier", "exists">>, <<"tier">>, <<"!", "tier">>, <<"tier", "!exists">>,
      <<"env", "~", "prod">> }

\* part_000:164: the labelSelector query parameter, clauses joined by commas
Selectors ==
    {<<c>> : c \in Clauses}
        \cup {<<c1, c2>> : c1 \in {<<"env", "=", "prod">>, <<"env", "!=", "prod">>},
                           c2 \in {<<"tier", "in", "api", "db">>, <<"tier", "exists">>,
                                   <<"!", "tier">>}}

ParseError == [key |-> "", op |-> "error", values |-> {}]

Rest(t, n) == {t[i] : i \in n..Len(t)}

\* one clause, parsed
ParseClause(t) ==
    IF Len(t) = 1 /\ t[1] # "!" THEN [key |-> t[1], op |-> "exists", values |-> {}]
    ELSE IF Len(t) = 2 /\ t[1] = "!" THEN [key |-> t[2], op |-> "!exists", values |-> {}]
    ELSE IF Len(t) = 2 /\ t[2] \in {"exists", "!exists"}
         THEN [key |-> t[1], op |-> t[2], values |-> {}]
    ELSE IF Len(t) = 3 /\ t[2] \in {"=", "==", "!="}
         THEN [key |-> t[1], op |-> t[2], values |-> {t[3]}]
    ELSE IF Len(t) >= 3 /\ t[2] \in {"in", "notin"}
         THEN [key |-> t[1], op |-> t[2], values |-> Rest(t, 3)]
    ELSE ParseError

\* the uids one clause selects, read off the reverse indexes
ClauseMatches(store, kind, cl) ==
    LET in == UNION {ValueIndex(store, kind, cl.key, v) : v \in cl.values}
    IN  CASE cl.op \in {"=", "==", "in"} -> in
          [] cl.op \in {"!=", "notin"} -> Entities(store, kind) \ in
          [] cl.op = "exists" -> KeyIndex(store, kind, cl.key)
          [] cl.op = "!exists" -> Entities(store, kind) \ KeyIndex(store, kind, cl.key)
          [] OTHER -> {}

\* label.GetResourcesByLabelSelector: the AND of the clauses, or a parse error
GetResourcesByLabelSelector(store, labelType, labelSelector) ==
    LET parsed == [i \in 1..Len(labelSelector) |-> ParseClause(labelSelector[i])]
    IN  IF \E i \in 1..Len(parsed) : parsed[i] = ParseError
        THEN [err |-> "parse error", results |-> {}]
        ELSE [err |-> "",
              results |-> {u \in Entities(store, labelType) :
                              \A i \in 1..Len(parsed) :
                                  u \in ClauseMatches(store, labelType, parsed[i])}]

NoResponse == [op |-> "", kind |-> "", uuid |-> "", sel |-> <<>>,
               labels |-> NoLabels, results |-> {}, err |-> ""]

\* the labels a request path has been given so far
Asked(kind, uuid) ==
    IF <<kind, uuid>> \in DOMAIN labelLog THEN labelLog[<<kind, uuid>>] ELSE NoLabels

\* part_000:41-66
RestCreateOrUpdateLabel ==
    /\ labelCalls < MaxLabelCalls
    /\ labelCalls' = labelCalls + 1
    /\ \E kind \in Kinds, uuid \in Uuids, bound \in BOOLEAN, labels \in LabelMaps :
          LET c == LabelRoute(kind, uuid)
              labelType == Param(c, "labelType")
              uid == Param(c, "uid")
              resourceKey == ResourceKey(labelType, uid)
          IN  IF ~bound
              THEN /\ labelResp' = [NoResponse EXCEPT !.op = "put", !.kind = kind,
                                       !.uuid = uuid, !.err = "Invalid request body"]
                   /\ UNCHANGED <<labelStore, labelLog>>
              ELSE /\ labelStore' = CreateOrUpdateLabel(labelStore, labelType, uid,
                                                         resourceKey, labels)
                   /\ labelLog' = [k \in DOMAIN labelLog \cup {<<kind, uuid>>} |->
                                      IF k = <<kind, uuid>> THEN labels ELSE labelLog[k]]
                   /\ labelResp' = [NoResponse EXCEPT !.op = "put", !.kind = kind,
                                       !.uuid = uuid]

\* part_000:83-100
RestRemoveLabel ==
    /\ labelCalls < MaxLabelCalls
    /\ labelCalls' = labelCalls + 1
    /\ \E kind \in Kinds, uuid \in Uuids, k0 \in LabelKeys :
          LET c == RemoveRoute(kind, uuid, k0)
              labelType == Param(c, "labelType")
              uid == Param(c, "uid")
              key == Param(c, "key")
          IN  /\ labelStore' = RemoveLabel(labelStore, labelType, uid, key)
              /\ labelLog' = [k \in DOMAIN labelLog |->
                                 IF k = <<kind, uuid>> THEN WithoutKey(labelLog[k], k0)
                                 ELSE labelLog[k]]
              /\ labelResp' = [NoResponse EXCEPT !.op = "remove", !.kind = kind,
                                  !.uuid = uuid]

\* part_000:114-130
RestGetLabels ==
    /\ \E kind \in Kinds, uuid \in Uuids :
          LET c == LabelRoute(kind, uuid)
              labelType == Param(c, "labelType")
              uid == Param(c, "uid")
              labelInfo == GetLabels(labelStore, labelType, uid)
          IN  labelResp' = [NoResponse EXCEPT !.op = "get", !.kind = kind,
                               !.uuid = uuid, !.labels = labelInfo.Labels]
    /\ UNCHANGED <<labelStore, labelLog, labelCalls>>

\* part_000:156-177
RestGetResourcesByLabelSelector ==
    /\ \E kind \in Kinds, labelSelector \in Selectors :
          LET c == [labelType |-> kind]
              labelType == Param(c, "labelType")
              r == GetResourcesByLabelSelector(labelStore, labelType, labelSelector)
          IN  labelResp' = [NoResponse EXCEPT !.op = "select", !.kind = kind,
                               !.sel = labelSelector, !.results = r.results,
                               !.err = r.err]
    /\ UNCHANGED <<labelStore, labelLog, labelCalls>>

InitLabel ==
    /\ labelStore = <<>>
    /\ labelLog = <<>>
    /\ labelResp = NoResponse
    /\ labelCalls = 0

NextLabel ==
    \/ RestCreateOrUpdateLabel /\ UNCHANGED exceptLabel
    \/ RestRemoveLabel /\ UNCHANGED exceptLabel
    \/ RestGetLabels /\ UNCHANGED exceptLabel
    \/ RestGetResourcesByLabelSelector /\ UNCHANGED exceptLabel

(* ------------------------------ CheckString ---------------------------- *)
\* utility.go:111: the character classes of the pattern, and characters
\* outside them
Letters == {"a", "Z"}
Digits == {"1"}
Chars == Letters \cup Digits \cup {"-", "+", "_"}

\* the names CheckString is given
RECURSIVE NamesUpTo(_)
NamesUpTo(n) ==
    IF n = 0 THEN {<<>>}
    ELSE LET shorter == NamesUpTo(n - 1)
         IN  shorter \cup {Append(s, c) : s \in {t \in shorter : Len(t) = n - 1}, c \in Chars}

Names == NamesUpTo(MaxNameLen)

\* utility.go:111: [a-z] under (?i)
First(c) == c \in Letters

\* utility.go:111: [-a-z0-9+] under (?i)
Inner(c) == c \in Letters \cup Digits \cup {"-", "+"}

\* utility.go:111: [a-z0-9] under (?i)
Last(c) == c \in Letters \cup Digits

\* utility.go:111-112: r.FindString(name), the leftmost match of
\* (?i)[a-z]([-a-z0-9+]*[a-z0-9])? with the greedy choices of the pattern:
\* it starts at the first letter, runs over the inner characters as far as
\* they go and ends at the last letter or digit of that run
FindString(name) ==
    LET starts == {i \in 1..Len(name) : First(name[i])}
    IN  IF starts = {} THEN <<>>
        ELSE LET i == CHOOSE s \in starts : \A t \in starts : s <= t
                 run == {j \in i..Len(name) : \A k \in (i + 1)..j : Inner(name[k])}
                 ends == {j \in run : j = i \/ Last(name[j])}
                 e == CHOOSE j \in ends : \A k \in ends : k <= j
             IN  SubSeq(name, i, e)

\* utility.go:104-123
CheckString(name) ==
    IF name = <<>> THEN "The provided string is empty"
    ELSE IF FindString(name) # name THEN "The name must follow these rules"
    ELSE ""

IdleCheck == [pc |-> "idle", name |-> <<>>, err |-> ""]

\* a caller hands a name to CheckString
CheckStringCall ==
    /\ chk.pc = "idle"
    /\ \E name \in Names : chk' = [pc |-> "called", name |-> name, err |-> ""]

\* utility.go:104-123
CheckStringReturn ==
    /\ chk.pc = "called"
    /\ chk' = [chk EXCEPT !.pc = "done", !.err = CheckString(chk.name)]

\* the next call
CheckStringAgain ==
    /\ chk.pc = "done"
    /\ chk' = IdleCheck

InitCheck == chk = IdleCheck

NextCheck ==
    \/ CheckStringCall /\ UNCHANGED exceptCheck
    \/ CheckStringReturn /\ UNCHANGED exceptCheck
    \/ CheckStringAgain /\ UNCHANGED exceptCheck

(* ------------------------- RegisterAllCloudInfo ------------------------ *)
\* utility.go:384: the providers of the catalog, ranged over in any order
Providers == DOMAIN RuntimeCloudInfo

\* utility.go:385-388: the error of one provider is logged and the range
\* goes on with the providers that are left
StopAtProviderError(todo) == {}

OnProviderError(todo) == todo

\* one broker request of the bootstrap and its outcome
Pushed(providerName, what, ok) == [provider |-> providerName, what |-> what, ok |-> ok]

IdleBoot == [pc |-> "idle", todo |-> {}, provider |-> "", regions |-> {},
             queue |-> <<>>, log |-> <<>>, ret |-> ""]

\* utility.go:382-383
RegisterAllCloudInfoBegin ==
    /\ boot.pc = "idle"
    /\ boot' = [IdleBoot EXCEPT !.pc = "range", !.todo = Providers]

\* utility.go:384-385: the next provider of the range
RegisterAllCloudInfoRange ==
    /\ boot.pc = "range" /\ boot.todo # {}
    /\ \E providerName \in boot.todo :
          boot' = [boot EXCEPT !.pc = "driver", !.provider = providerName,
                               !.todo = @ \ {providerName}]

\* utility.go:402-427: POST /driver; a failure is the error of the provider
RegisterCloudInfoDriver ==
    /\ boot.pc = "driver"
    /\ \E ok \in BOOLEAN :
          boot' = [boot EXCEPT
                      !.log = Append(@, Pushed(boot.provider, <<"driver">>, ok)),
                      !.pc = IF ok THEN "regions" ELSE "range",
                      !.regions = IF ok THEN DOMAIN RuntimeCloudInfo[boot.provider].Regions
                                  ELSE {},
                      !.todo = IF ok THEN @ ELSE OnProviderError(@)]

\* utility.go:429-437: the next region of the provider, or the provider is
\* done; 440-463: the requests of RegisterRegionZone for that region
RegisterCloudInfoRegion ==
    /\ boot.pc = "regions"
    /\ IF boot.regions = {}
       THEN boot' = [boot EXCEPT !.pc = "range"]
       ELSE \E regionName \in boot.regions :
               boot' = [boot EXCEPT !.pc = "push", !.regions = @ \ {regionName},
                                    !.queue = RegisterRegionZone(boot.provider, regionName)]

\* utility.go:465-480, 483-507: POST /region for the region, then for each of
\* its zones; a failure is returned through RegisterCloudInfo (431-435)
RegisterRegionZonePush ==
    /\ boot.pc = "push" /\ boot.queue # <<>>
    /\ \E ok \in BOOLEAN :
          boot' = [boot EXCEPT
                      !.log = Append(@, Pushed(boot.provider, Head(boot.queue).RegionName, ok)),
                      !.queue = IF ok THEN Tail(@) ELSE <<>>,
                      !.regions = IF ok THEN @ ELSE {},
                      !.pc = IF ~ok THEN "range"
                             ELSE IF Tail(boot.queue) = <<>> THEN "regions" ELSE "push",
                      !.todo = IF ok THEN @ ELSE OnProviderError(@)]

\* utility.go:390: return nil
RegisterAllCloudInfoReturn ==
    /\ boot.pc = "range" /\ boot.todo = {}
    /\ boot' = [boot EXCEPT !.pc = "done", !.ret = ""]

InitBoot == boot = IdleBoot

NextBoot ==
    \/ RegisterAllCloudInfoBegin /\ UNCHANGED exceptBoot
    \/ RegisterAllCloudInfoRange /\ UNCHANGED exceptBoot
    \/ RegisterCloudInfoDriver /\ UNCHANGED exceptBoot
    \/ RegisterCloudInfoRegion /\ UNCHANGED exceptBoot
    \/ RegisterRegionZonePush /\ UNCHANGED exceptBoot
    \/ RegisterAllCloudInfoReturn /\ UNCHANGED exceptBoot

(* ------------------------------- RunServer ----------------------------- *)
\* server.go:535: context.WithTimeout(context.TODO(), 10*time.Second)
DrainSeconds == 10

\* server.go:551: wg.Wait() returns once the goroutine has run wg.Done()
\* (529), which is deferred to the end of the goroutine
ReturnsAtOnce(gor) == TRUE

WaitGroupDone(gor) == gor \in {"exited", "panicking"}

\* RunServer after signal.NotifyContext (server.go:520-522)
InitServer ==
    srv = [main |-> "spawn", gor |-> "none", signalled |-> FALSE, status |-> "new",
           inflight |-> 0, deadline |-> 0, elapsed |-> 0]

\* the process is running RunServer
Alive == srv.main \in {"spawn", "start", "serving", "wait"}

\* one of the signals of server.go:521 arrives
Signal ==
    /\ Alive /\ ~srv.signalled
    /\ srv' = [srv EXCEPT !.signalled = TRUE]

\* server.go:527-528: wg.Add(1); go func ...
Spawn ==
    /\ srv.main = "spawn"
    /\ srv' = [srv EXCEPT !.main = "start", !.gor = "blocked"]

\* server.go:546: e.Start(port) listens and serves
StartServing ==
    /\ srv.main = "start" /\ srv.status = "new"
    /\ srv' = [srv EXCEPT !.main = "serving", !.status = "serving"]

\* server.go:546-549: e.Start(port) fails with an error other than
\* http.ErrServerClosed, and e.Logger.Panic ends the process
StartFails ==
    /\ srv.main = "start" /\ srv.status = "new"
    /\ srv' = [srv EXCEPT !.main = "panicked"]

\* server.go:546: e.Start(port) returns http.ErrServerClosed once Shutdown
\* has been called
StartReturnsClosed ==
    /\ srv.main \in {"start", "serving"} /\ srv.status = "closed"
    /\ srv' = [srv EXCEPT !.main = "wait"]

\* a request is accepted by the serving server
RequestArrives ==
    /\ Alive /\ srv.status = "serving" /\ srv.inflight < MaxInFlight
    /\ srv' = [srv EXCEPT !.inflight = @ + 1]

\* a request in flight is answered
RequestCompletes ==
    /\ Alive /\ srv.inflight > 0
    /\ srv' = [srv EXCEPT !.inflight = @ - 1]

\* server.go:532-538: the goroutine wakes on the signal context and calls
\* e.Shutdown with the drain bound
ShutdownInvoke ==
    /\ Alive /\ srv.gor = "blocked" /\ srv.signalled
    /\ srv' = [srv EXCEPT !.gor = "draining", !.status = "closed",
                          !.deadline = DrainSeconds, !.elapsed = 0]

\* one second of the drain goes by
Tick ==
    /\ Alive /\ srv.gor = "draining" /\ srv.inflight > 0 /\ srv.elapsed < srv.deadline
    /\ srv' = [srv EXCEPT !.elapsed = @ + 1]

\* server.go:538, 529: e.Shutdown returns nil when nothing is in flight; the
\* goroutine ends and wg.Done() runs
ShutdownReturns ==
    /\ Alive /\ srv.gor = "draining" /\ srv.inflight = 0
    /\ srv' = [srv EXCEPT !.gor = "exited"]

\* server.go:538-541, 529: e.Shutdown returns the context's error at the
\* deadline; e.Logger.Panic unwinds the goroutine, wg.Done() runs
ShutdownTimesOut ==
    /\ Alive /\ srv.gor = "draining" /\ srv.inflight > 0 /\ srv.elapsed = srv.deadline
    /\ srv' = [srv EXCEPT !.gor = "panicking"]

\* server.go:540: the panic of the goroutine ends the process
Crash ==
    /\ Alive /\ srv.gor = "panicking"
    /\ srv' = [srv EXCEPT !.main = "crashed"]

\* server.go:551-552: wg.Wait() returns and RunServer returns
RunServerReturns ==
    /\ srv.main = "wait" /\ WaitGroupDone(srv.gor)
    /\ srv' = [srv EXCEPT !.main = "returned"]

NextServer ==
    \/ Signal /\ UNCHANGED exceptServer
    \/ Spawn /\ UNCHANGED exceptServer
    \/ StartServing /\ UNCHANGED exceptServer
    \/ StartFails /\ UNCHANGED exceptServer
    \/ StartReturnsClosed /\ UNCHANGED exceptServer
    \/ RequestArrives /\ UNCHANGED exceptServer
    \/ RequestCompletes /\ UNCHANGED exceptServer
    \/ ShutdownInvoke /\ UNCHANGED exceptServer
    \/ Tick /\ UNCHANGED exceptServer
    \/ ShutdownReturns /\ UNCHANGED exceptServer
    \/ ShutdownTimesOut /\ UNCHANGED exceptServer
    \/ Crash /\ UNCHANGED exceptServer
    \/ RunServerReturns /\ UNCHANGED exceptServer

(* ---------------- the rewrite of a region representative --------------- *)
\* a catalog with a region whose name begins with the name of another one:
\* "r10" is "r1" followed by "0"; r1 has two zones, r10 has one
PrefixCatalog ==
    ( "aws" :> <<[RegionId |-> "r1", RegionName |-> <<"r1">>, Zones |-> <<"a", "b">>],
                 [RegionId |-> "r10", RegionName |-> <<"r1", "0">>, Zones |-> <<"a">>]>> ) @@
    ( "gcp" :> <<[RegionId |-> "r1", RegionName |-> <<"r1">>, Zones |-> <<"a">>]>> )

\* utility.go:691-704 with part_003 RegisterConnectionConfig: the ConnConfig
\* of the default holder for a region (zone "": the region-only one)
CatalogConn(provider, region, zone) ==
    LET name == <<provider>> \o Dash \o region.RegionName \o
                (IF zone = "" THEN <<>> ELSE Dash \o <<zone>>)
    IN  [ConfigName           |-> name,
         ProviderName         |-> <<provider>>,
         RegionZoneInfoName   |-> name,
         CredentialHolder     |-> DefaultCredentialHolder,
         RegionZoneInfo       |-> [AssignedRegion |-> region.RegionId,
                                   AssignedZone |-> IF zone # "" THEN zone
                                                    ELSE IF Len(region.Zones) > 0
                                                    THEN region.Zones[1] ELSE "N/A"],
         RegionDetail         |-> region,
         Verified             |-> FALSE,
         RegionRepresentative |-> FALSE]

\* the ConnConfigs of one region: the region-only one, then one per zone
RegionConns(provider, region) ==
    <<CatalogConn(provider, region, "")>> \o
    [i \in 1..Len(region.Zones) |-> CatalogConn(provider, region, region.Zones[i])]

\* kvstore.GetKvList("/connection") on the prefix catalog: the keys in the
\* order of their bytes ("-" sorts before "0", so aws-r1-b precedes aws-r10)
PrefixConns ==
    RegionConns("aws", PrefixCatalog["aws"][1]) \o RegionConns("aws", PrefixCatalog["aws"][2])
    \o RegionConns("gcp", PrefixCatalog["gcp"][1])

\* no rewrite in progress
IdleRewrite == [pc |-> "idle", provider |-> "", rep |-> 0, verified |-> {}, out |-> <<>>]

\* utility.go:816-831: RegisterCredential of a provider reaches an unverified
\* region representative of that provider, with any of the other connections
\* verified by their probes
RewriteBegin ==
    /\ rw.pc = "idle"
    /\ \E rep \in 1..Len(PrefixConns), verified \in SUBSET (1..Len(PrefixConns)) :
          /\ PrefixConns[rep].ConfigName =
                 PrefixConns[rep].ProviderName \o Dash \o PrefixConns[rep].RegionDetail.RegionName
          /\ rep \notin verified
          /\ rw' = [IdleRewrite EXCEPT !.pc = "rewrite", !.rep = rep, !.verified = verified,
                                       !.provider = PrefixConns[rep].ProviderName[1]]
    /\ UNCHANGED exceptRewrite

\* the verified connections of the holder, in store order
VerifiedConns(verified) ==
    LET In(i) == i \in verified
        picked == SelectSeq([i \in 1..Len(PrefixConns) |-> i], In)
    IN  [i \in 1..Len(picked) |-> [PrefixConns[picked[i]] EXCEPT !.Verified = TRUE]]

\* utility.go:831-848: the representative is rewritten and stored
RewriteApply ==
    /\ rw.pc = "rewrite"
    /\ rw' = [rw EXCEPT !.pc = "done",
                        !.out = UpdateZone([PrefixConns[rw.rep] EXCEPT !.RegionRepresentative = TRUE],
                                           VerifiedConns(rw.verified))]
    /\ UNCHANGED exceptRewrite

\* the next representative
RewriteAgain ==
    /\ rw.pc = "done"
    /\ rw' = IdleRewrite
    /\ UNCHANGED exceptRewrite

InitRewrite == rw = IdleRewrite

NextRewrite ==
    \/ RewriteBegin
    \/ RewriteApply
    \/ RewriteAgain

(* ------------- ValidateVNetReq on generated connection names ----------- *)
\* utility.go:690-711: the ConnConfigs RegisterCredential stores for a holder:
\* one per region entry of the broker, the region-only and the zoned ones
GeneratedConns(holder) ==
    [i \in 1..Len(GetRegionList) |->
        RegisterConnectionConfig(holder, LowerTok(GetRegionList[i].ProviderName[1]),
            CredentialName(holder, LowerTok(GetRegionList[i].ProviderName[1])),
            GetRegionList[i])]

\* no call in progress
IdleValidate == [pc |-> "idle", conn |-> <<>>, req |-> NoReq, err |-> ""]

\* part_002:77: a request with a sound network, whose ConnectionName is the
\* ConfigName of a stored ConnConfig and whose subnets name any zone
ValidateCall ==
    /\ vr.pc = "idle"
    /\ \E holder \in {HolderOrder[i] : i \in 1..Len(HolderOrder)},
          k \in 1..Len(GetRegionList), n \in 1..MaxSubnets,
          z \in [1..MaxSubnets -> ZoneInputs(TRUE)] :
          LET conn == GeneratedConns(holder)[k]
          IN  vr' = [IdleValidate EXCEPT
                        !.pc = "called", !.conn = conn,
                        !.req = [Name |-> <<"vnet1">>, ConnectionName |-> conn.ConfigName,
                                 CidrBlock |-> VNetCidr,
                                 SubnetInfoList |-> [i \in 1..n |->
                                     [Name |-> SubnetNames[i], IPv4_CIDR |-> SubnetCidr(i, FALSE),
                                      Zone |-> z[i]]]]]
    /\ UNCHANGED exceptValidate

\* part_002:77-143: the call returns its error
ValidateReturn ==
    /\ vr.pc = "called"
    /\ vr' = [vr EXCEPT !.pc = "done", !.err = ValidateVNetReq(vr.req)]
    /\ UNCHANGED exceptValidate

\* the next request
ValidateAgain ==
    /\ vr.pc = "done"
    /\ vr' = IdleValidate
    /\ UNCHANGED exceptValidate

InitValidate == vr = IdleValidate

NextValidate ==
    \/ ValidateCall
    \/ ValidateReturn
    \/ ValidateAgain

(* -------------------- RunServer: authentication and routes ------------- *)
\* server.go:120-127: the routes registered before the auth set-up
SystemRoutes == {"/tumblebug/api/*", "/tumblebug/readyz", "/tumblebug/httpVersion"}

\* server.go:198-202: the routes of the group /tumblebug/auth
AuthGroupRoutes == {"/tumblebug/auth/test"}

\* server.go:208-510: routes registered on e and on the groups of e, of
\* which these stand for the rest
ApiRoutes == {"/tumblebug/ns", "/tumblebug/label/:labelType/:uuid", "/tumblebug/credential"}

\* server.go:156-161 and 179-182: the paths both middlewares are told to skip
AuthSkipPatterns == {"/tumblebug/readyz", "/tumblebug/httpVersion"}

\* what a request carries: no credentials, wrong ones, or the ones the
\* configured mode accepts
Credentials == {"none", "wrong", "valid"}

NoRequest == [path |-> "", cred |-> "", status |-> ""]

\* server.go:93: a new echo instance
NewEcho == [pc |-> "new", authEnabled |-> FALSE, authMode |-> "", jwtInit |-> FALSE,
            basicAuthMw |-> FALSE, jwtAuthMw |-> FALSE,
            use |-> {}, groupUse |-> {}, routes |-> {}, req |-> NoRequest]

\* server.go:116-127
RegisterSystemRoutes ==
    /\ api.pc = "new"
    /\ api' = [api EXCEPT !.pc = "env", !.routes = SystemRoutes]
    /\ UNCHANGED exceptRoutes

\* server.go:141-145: TB_AUTH_ENABLED and TB_AUTH_MODE; jwtInit: whether
\* InitJwtAuthMw will succeed
ReadAuthEnv ==
    /\ api.pc = "env"
    /\ \E authEnabled \in BOOLEAN, authMode \in {"basic", "jwt", "", "oauth"}, jwtInit \in BOOLEAN :
          api' = [api EXCEPT !.pc = "setup", !.authEnabled = authEnabled,
                             !.authMode = authMode, !.jwtInit = jwtInit]
    /\ UNCHANGED exceptRoutes

\* server.go:147-188: build the middleware of the mode; log.Fatal ends the
\* process when the JWT set-up fails or the mode is neither basic nor jwt
SetupAuthMiddleware ==
    /\ api.pc = "setup"
    /\ api' = IF ~api.authEnabled THEN [api EXCEPT !.pc = "useBasic"]
              ELSE IF api.authMode = "basic"
              THEN [api EXCEPT !.pc = "useBasic", !.basicAuthMw = TRUE]
              ELSE IF api.authMode = "jwt"
              THEN IF api.jwtInit THEN [api EXCEPT !.pc = "useBasic", !.jwtAuthMw = TRUE]
                   ELSE [api EXCEPT !.pc = "fatal"]
              ELSE [api EXCEPT !.pc = "fatal"]
    /\ UNCHANGED exceptRoutes

\* server.go:198-201: authGroup.Use(jwtAuthMw)
UseJwtOnAuthGroup(a) ==
    IF a.authEnabled /\ a.authMode = "jwt" /\ a.jwtAuthMw THEN a.groupUse \cup {"jwt"}
    ELSE a.groupUse

\* server.go:190-203: e.Use(basicAuthMw) in basic mode; the group
\* /tumblebug/auth, with the JWT middleware in jwt mode, and its route
UseAuthMiddleware ==
    /\ api.pc = "useBasic"
    /\ api' = [api EXCEPT !.pc = "routes",
                          !.use = IF api.authEnabled /\ api.authMode = "basic" /\ api.basicAuthMw
                                  THEN api.use \cup {"basic"} ELSE api.use,
                          !.groupUse = UseJwtOnAuthGroup(api),
                          !.routes = api.routes \cup AuthGroupRoutes]
    /\ UNCHANGED exceptRoutes

\* server.go:208-510: the other routes; 546: e.Start
RegisterApiRoutes ==
    /\ api.pc = "routes"
    /\ api' = [api EXCEPT !.pc = "serving", !.routes = api.routes \cup ApiRoutes]
    /\ UNCHANGED exceptRoutes

\* echo: the middleware of e runs for every route, the middleware of a group
\* for the routes of the group; server.go:155-170: the basic middleware skips
\* the two paths and answers 401 unless user and password are the configured
\* ones; the JWT middleware does the same with the bearer token
ServeHTTP(a, path, cred) ==
    IF "basic" \in a.use /\ path \notin AuthSkipPatterns /\ cred # "valid" THEN "Unauthorized"
    ELSE IF /\ path \in AuthGroupRoutes /\ "jwt" \in a.groupUse
            /\ path \notin AuthSkipPatterns /\ cred # "valid"
    THEN "Unauthorized"
    ELSE "OK"

\* a client calls a registered route
Request ==
    /\ api.pc = "serving"
    /\ \E path \in api.routes, cred \in Credentials :
          api' = [api EXCEPT !.req = [path |-> path, cred |-> cred,
                                      status |-> ServeHTTP(api, path, cred)]]
    /\ UNCHANGED exceptRoutes

InitRoutes == api = NewEcho

NextRoutes ==
    \/ RegisterSystemRoutes
    \/ ReadAuthEnv
    \/ SetupAuthMiddleware
    \/ UseAuthMiddleware
    \/ RegisterApiRoutes
    \/ Request

(* --------------------------- GenRandomPassword ------------------------- *)
\* utility.go:52-54: xid's String() has 20 characters, each a digit or one
\* of a..v; "u" stands for any of them
GenUid == [i \in 1..20 |-> "u"]

\* utility.go:60
Charset == <<"A", "1", "!", "$">>

\* rand.Shuffle: a permutation of s; the rotations of s and of s reversed
\* stand for the permutations
Shuffle(s) ==
    LET Rotate(t, k) == [i \in 1..Len(t) |-> t[((i + k - 1) % Len(t)) + 1]]
    IN  IF s = <<>> THEN {s}
        ELSE {Rotate(s, k) : k \in 0..(Len(s) - 1)} \cup
             {Rotate(Reverse(s), k) : k \in 0..(Len(s) - 1)}

\* utility.go:57-80: the passwords a call can return, or the panic of the
\* slice expression randomString[0 : length-len(charset)]
GenRandomPassword(length) ==
    LET randomString == IF Len(GenUid) < length THEN GenUid \o GenUid ELSE GenUid
        high == length - Len(Charset)
    IN  IF high < 0 \/ high > Len(randomString)
        THEN {[err |-> "panic: slice bounds out of range", pw |-> <<>>]}
        ELSE {[err |-> "", pw |-> out] :
                 out \in UNION {Shuffle(SubSeq(randomString, 1, high) \o shuff) :
                                   shuff \in Shuffle(Charset)}}

\* no call in progress
IdlePassword == [pc |-> "idle", length |-> 0, err |-> "", pw |-> <<>>]

\* utility.go:57: a call with a length
GenRandomPasswordCall ==
    /\ pw.pc = "idle"
    /\ \E length \in 0..MaxPasswordLen : pw' = [IdlePassword EXCEPT !.pc = "called", !.length = length]
    /\ UNCHANGED exceptPassword

\* utility.go:58-80
GenRandomPasswordReturn ==
    /\ pw.pc = "called"
    /\ \E ret \in GenRandomPassword(pw.length) :
          pw' = [pw EXCEPT !.pc = "done", !.err = ret.err, !.pw = ret.pw]
    /\ UNCHANGED exceptPassword

\* the next call
GenRandomPasswordAgain ==
    /\ pw.pc = "done"
    /\ pw' = IdlePassword
    /\ UNCHANGED exceptPassword

InitPassword == pw = IdlePassword

NextPassword ==
    \/ GenRandomPasswordCall
    \/ GenRandomPasswordReturn
    \/ GenRandomPasswordAgain

Init ==
    /\ InitCred /\ InitVNet /\ InitFanOut /\ InitLabel /\ InitCheck /\ InitBoot /\ InitServer
    /\ InitRewrite /\ InitValidate /\ InitRoutes /\ InitPassword

(* ----------------------- claims on the vNet lifecycle ------------------ *)
VNetKey(id) == GenResourceKey(NsId, id)
SubnetKeys(store, id) ==
    {GenChildResourceKey(NsId, id, SubnetIdOrder[i]) : i \in 1..Len(SubnetIdOrder)} \cap DOMAIN store
IntentOf(op) ==
    CASE op = "create" -> "Configuring"
      [] op = "register" -> "Registering"
      [] op = "delete" -> "Deleting"
      [] op = "deregister" -> "Deregistering"
      [] OTHER -> ""
ErrorOf(op) ==
    CASE op = "create" -> "ErrorOnConfiguring"
      [] op = "register" -> "ErrorOnRegistering"
      [] OTHER -> "ErrorOnDeleting"
\* the call of p ended on a failed vNet-level broker request, and nothing else ran beside it
BrokerFailed(p) ==
    /\ vn[p].pc = "done" /\ vn[p].isolated
    /\ vn[p].op \in {"create", "register", "delete"}
    /\ vn[p].err \in {"broker", "failed to delete"}
    /\ vn[p].lastPut = IntentOf(vn[p].op)

\* C3: after a CreateVNet, RegisterVNet or DeleteVNet whose broker request
\* failed, the stored vNet has the matching status ErrorOnConfiguring,
\* ErrorOnRegistering or ErrorOnDeleting, never the intent status.
C3_BrokerFailureStoresErrorStatus ==
    \A p \in Procs :
        BrokerFailed(p) =>
            /\ VNetKey(vn[p].id) \in DOMAIN kv
            /\ kv[VNetKey(vn[p].id)].Status = ErrorOf(vn[p].op)

\* C4: a handler that is about to send its vNet-level broker request has last
\* persisted its own intent status (Configuring, Registering, Deleting,
\* Deregistering), and a handler has persisted a terminal status or removed
\* the key only after the broker acknowledged.
C4_IntentPersistedBeforeBroker ==
    \A p \in Procs :
        /\ vn[p].pc \in {"cBroker", "rBroker", "dBroker"} => vn[p].lastPut = IntentOf(vn[p].op)
        /\ (vn[p].op \in {"create", "register", "delete", "deregister"}
              /\ vn[p].lastPut \in {"Available", "InUse", "<deleted>"}) => vn[p].acked

\* C5: the stored status of one vNet entity (one Uuid under one key) never
\* steps from Available or InUse back to Configuring or Registering.
C5_StatusNeverRegresses ==
    [][\A id \in VNetIds :
          (/\ VNetKey(id) \in DOMAIN kv
           /\ VNetKey(id) \in DOMAIN kv'
           /\ kv[VNetKey(id)].Uuid = kv'[VNetKey(id)].Uuid
           /\ kv[VNetKey(id)].Status \in {"Available", "InUse"})
          => kv'[VNetKey(id)].Status \notin {"Configuring", "Registering"}]_vars

\* C6: a CreateVNet or RegisterVNet on an Id whose vNet key exists has
\* returned the already-exists error, sent nothing to the broker and written
\* nothing to the store.
C6_DuplicateCreateIsRejected ==
    \A p \in Procs :
        (vn[p].op \in {"create", "register"} /\ ~vn[p].absent0) =>
            /\ vn[p].pc = "done"
            /\ vn[p].err = "already exists"
            /\ ~vn[p].called
            /\ ~vn[p].wrote

\* C6 witness: a create or register was refused on a stored vNet
C6_DuplicateRefused ==
    \E p \in Procs :
        /\ vn[p].op \in {"create", "register"} /\ ~vn[p].absent0
        /\ vn[p].pc = "done" /\ vn[p].err = "already exists"
        /\ VNetKey(vn[p].id) \in DOMAIN kv

\* C7: a DeleteVNet or DeregisterVNet on a vNet with stored subnets and
\* withSubnets absent or "false" has returned the in-use error, sent nothing
\* to the broker and written nothing to the store.
C7_DeleteWithSubnetsIsRefused ==
    \A p \in Procs :
        (vn[p].op \in {"delete", "deregister"} /\ vn[p].subnets0 /\ vn[p].ws \in {"", "false"}) =>
            /\ vn[p].pc = "done"
            /\ vn[p].err = "in-use"
            /\ ~vn[p].called
            /\ ~vn[p].wrote

\* C7 witness: a delete without withSubnets was refused on a stored vNet that
\* still has its status and its subnet keys
C7_InUseRefused ==
    \E p \in Procs :
        /\ vn[p].op \in {"delete", "deregister"} /\ vn[p].subnets0 /\ vn[p].ws \in {"", "false"}
        /\ vn[p].pc = "done" /\ vn[p].err = "in-use"
        /\ VNetKey(vn[p].id) \in DOMAIN kv
        /\ kv[VNetKey(vn[p].id)].Status = "InUse"
        /\ SubnetKeys(kv, vn[p].id) # {}

\* C8: the step on which DeleteVNet returns success leaves neither the vNet
\* key nor any subnet key of the vNet in the store.
C8_DeleteLeavesNoKey ==
    [][\A p \in Procs :
          (/\ vn[p].op = "delete" /\ vn[p].pc = "dDeleteKey"
           /\ vn'[p].pc = "done" /\ vn'[p].err = "")
          => /\ VNetKey(vn[p].id) \notin DOMAIN kv'
             /\ SubnetKeys(kv', vn[p].id) = {}]_vars

\* C9: a DeleteVNet or DeregisterVNet that found no vNet key when it began,
\* with a valid withSubnets and no other call beside it, has returned the
\* does-not-exist error and written nothing to the store.
C9_DeleteOfAbsentVNet ==
    \A p \in Procs :
        (/\ vn[p].op \in {"delete", "deregister"} /\ vn[p].pc = "done"
         /\ vn[p].absent0 /\ vn[p].isolated
         /\ vn[p].ws \in {"", "true", "false"})
        => (vn[p].err = "does not exist" /\ ~vn[p].wrote)

\* C10: every stored subnet key has its parent vNet key stored.
C10_SubnetHasParent ==
    \A id \in VNetIds : SubnetKeys(kv, id) # {} => VNetKey(id) \in DOMAIN kv

\* the call of p returned success from CreateVNet, RegisterVNet or GetVNet and
\* its vNet is stored
Stored(p, ops) ==
    /\ vn[p].pc = "done" /\ vn[p].err = "" /\ vn[p].op \in ops
    /\ VNetKey(vn[p].id) \in DOMAIN kv

\* the zones the catalog declares for the region a connection name points at
ZonesOf(ConnectionName) ==
    LET parts == SplitN2(ConnectionName)
    IN  IF Len(parts) < 2 THEN <<>> ELSE GetRegion(parts[1], parts[2]).detail.Zones

\* C11: in the vNet stored after a successful CreateVNet, RegisterVNet or
\* GetVNet, whatever the broker answered, every subnet of SubnetInfoList has
\* the vNet's CspVNetId.
C11_SubnetsCarryCspVNetId ==
    \A p \in Procs :
        Stored(p, {"create", "register", "get"}) =>
            LET v == kv[VNetKey(vn[p].id)]
            IN  \A i \in 1..Len(v.SubnetInfoList) : v.SubnetInfoList[i].CspVNetId = v.CspVNetId

\* C12: in the vNet stored by a successful CreateVNet, every subnet's
\* IPv4_CIDR lies inside the vNet's CidrBlock and every subnet's Zone is empty
\* or a zone the catalog declares for the region of the vNet's connection.
C12_SubnetsInsideVNet ==
    \A p \in Procs :
        Stored(p, {"create"}) =>
            LET v == kv[VNetKey(vn[p].id)]
            IN  \A i \in 1..Len(v.SubnetInfoList) :
                    /\ CidrContains(v.CidrBlock, v.SubnetInfoList[i].IPv4_CIDR)
                    /\ \/ v.SubnetInfoList[i].Zone = ""
                       \/ ContainsZone(ZonesOf(v.ConnectionName), v.SubnetInfoList[i].Zone)

\* C13: a CreateVNet whose request has no subnet goes no further than its
\* validation (no Put, no broker request), and the vNet a successful
\* CreateVNet stored has a subnet and is not Available.
C13_NoVNetWithoutSubnets ==
    \A p \in Procs :
        /\ (vn[p].op = "create" /\ vn[p].pc \notin {"idle", "done"})
              => vn[p].info.SubnetInfoList # <<>>
        /\ Stored(p, {"create"})
              => /\ kv[VNetKey(vn[p].id)].SubnetInfoList # <<>>
                 /\ kv[VNetKey(vn[p].id)].Status # "Available"

\* the vNet object carries what the request gave: Name, ConnectionName,
\* CidrBlock, and Name, IPv4_CIDR and Zone of every subnet
SameAsRequest(vNetInfo, vNetReq) ==
    /\ vNetInfo.Id = vNetReq.Name
    /\ vNetInfo.ConnectionName = vNetReq.ConnectionName
    /\ vNetInfo.CidrBlock = vNetReq.CidrBlock
    /\ Len(vNetInfo.SubnetInfoList) = Len(vNetReq.SubnetInfoList)
    /\ \A i \in 1..Len(vNetReq.SubnetInfoList) :
          /\ vNetInfo.SubnetInfoList[i].Id = vNetReq.SubnetInfoList[i].Name
          /\ vNetInfo.SubnetInfoList[i].IPv4_CIDR = vNetReq.SubnetInfoList[i].IPv4_CIDR
          /\ vNetInfo.SubnetInfoList[i].Zone = vNetReq.SubnetInfoList[i].Zone

\* C23: the object a successful GetVNet returns (the one it stored) after a
\* successful CreateVNet of a request carries the request's Name,
\* ConnectionName, CidrBlock and subnet Names, IPv4_CIDRs and Zones, whatever
\* the broker answered to the create and to the read.
C23_GetReturnsTheRequest ==
    \A p \in Procs :
        (Stored(p, {"get"}) /\ vn[p].created # NoReq) =>
            SameAsRequest(kv[VNetKey(vn[p].id)], vn[p].created)

\* C26: every vNet and every subnet in the store carries a non-empty Uuid,
\* and no two stored entities carry the same Uuid.
C26_UuidsAreSetAndDistinct ==
    /\ \A k \in DOMAIN kv : kv[k].Uuid # 0
    /\ \A k1 \in DOMAIN kv : \A k2 \in DOMAIN kv \ {k1} : kv[k1].Uuid # kv[k2].Uuid

\* the closed status set of the network entities
StatusSet ==
    {"Configuring", "Available", "InUse", "Updating", "Deleting", "Registering",
     "Deregistering", "Unknown", "Error", "ErrorOnConfiguring", "ErrorOnReading",
     "ErrorOnUpdating", "ErrorOnDeleting", "ErrorOnRegistering"}

\* C27: the Status of every vNet and of every subnet in the store is a member
\* of the closed status set, spelled exactly; none is empty.
C27_StoredStatusIsInTheClosedSet ==
    \A k \in DOMAIN kv : kv[k].Status \in StatusSet

\* the broker request CreateVNet sends for the call of handler p
SentFor(p) ==
    LET subs == vn[p].info.SubnetInfoList
    IN  [Name |-> vn[p].info.Uuid, IPv4_CIDR |-> vn[p].reqCidr,
         SubnetInfoList |-> [i \in 1..Len(subs) |->
             [Name |-> subs[i].Uuid, IPv4_CIDR |-> subs[i].IPv4_CIDR, Zone |-> subs[i].Zone]]]

\* the entries of a response that carry one NameId
Named(spResp, name) ==
    {spResp.SubnetInfoList[j] : j \in {k \in 1..Len(spResp.SubnetInfoList) :
                                          spResp.SubnetInfoList[k].IId.NameId = name}}

\* C31: whatever the order of the subnet list in the broker's answer to
\* CreateVNet, the reconciled vNet is the same, and every local subnet takes
\* the CspSubnetId of the response entry whose NameId is its Uuid.
C31_ReconciledByUuid ==
    \A p \in Procs :
        vn[p].pc = "cBroker" =>
            \A spResp \in SpiderCreateVPC(SentFor(p), TRUE) :
                LET got == ReconcileCreate(vn[p].info, spResp)
                    turned == [spResp EXCEPT !.SubnetInfoList = Reverse(@)]
                IN  /\ ReconcileCreate(vn[p].info, turned) = got
                    /\ \A i \in 1..Len(got.SubnetInfoList) :
                          LET sub == got.SubnetInfoList[i]
                          IN  \A sp \in Named(spResp, sub.Uuid) :
                                  sub.CspSubnetId = sp.IId.SystemId

\* CreateVNet has stored a vNet whose two subnets each carry the CspSubnetId
\* the broker gave for their own Uuid
C31_TwoSubnetsReconciled ==
    \E p \in Procs :
        /\ Stored(p, {"create"})
        /\ LET subs == kv[VNetKey(vn[p].id)].SubnetInfoList
           IN  /\ Len(subs) = 2
               /\ \A i \in 1..2 : subs[i].CspSubnetId = <<"csp-subnet", subs[i].Uuid>>

\* the subnet keys RegisterVNet writes for a response of n subnets
RegKeys(id, n) == {GenChildResourceKey(NsId, id, RegSubnetId(i)) : i \in 1..n}

\* C32: after a successful RegisterVNet the store holds, under the vNet,
\* exactly the subnet keys reg-subnet-01 .. reg-subnet-n of the n subnets the
\* stored vNet lists, each with Status Unknown and the CspSubnetId of the
\* response entry at its position.
C32_RegisteredSubnetsAreStored ==
    \A p \in Procs :
        Stored(p, {"register"}) =>
            LET v == kv[VNetKey(vn[p].id)]
                n == Len(v.SubnetInfoList)
            IN  /\ SubnetKeys(kv, vn[p].id) = RegKeys(vn[p].id, n)
                /\ \A i \in 1..n :
                      /\ v.SubnetInfoList[i].Id = RegSubnetId(i)
                      /\ v.SubnetInfoList[i].Status = "Unknown"
                      /\ v.SubnetInfoList[i].CspSubnetId = <<"csp-subnet", <<"ext", i>>>>
                      /\ kv[GenChildResourceKey(NsId, vn[p].id, RegSubnetId(i))]
                            = v.SubnetInfoList[i]

\* RegisterVNet has returned a vNet with two adopted subnets
C32_TwoSubnetsRegistered ==
    \E p \in Procs :
        /\ Stored(p, {"register"})
        /\ Len(kv[VNetKey(vn[p].id)].SubnetInfoList) = 2

\* the call of p is a CreateVNet or RegisterVNet that has passed its
\* existence check and has not returned yet
PastExistenceCheck(p) ==
    /\ vn[p].op \in {"create", "register"}
    /\ vn[p].pc \notin {"idle", "done"}

\* C33: two CreateVNet or RegisterVNet calls for one Id are never both past
\* the existence check at the same time.
C33_OneCallPastTheExistenceCheck ==
    \A p \in Procs : \A q \in Procs \ {p} :
        ~(PastExistenceCheck(p) /\ PastExistenceCheck(q) /\ vn[p].id = vn[q].id)

\* C34: the write that ends GetVNet never creates the vNet key, and never
\* replaces a stored Deleting status by another value.
C34_GetNeverUndoesADelete ==
    [][\A p \in Procs :
          (vn[p].op = "get" /\ vn[p].pc = "gPut" /\ vn'[p].pc = "done") =>
              /\ VNetKey(vn[p].id) \in DOMAIN kv
              /\ kv[VNetKey(vn[p].id)].Status = "Deleting"
                    => kv'[VNetKey(vn[p].id)].Status = "Deleting"]_vars

\* C35: whenever the stored vNet has Status InUse or Available, the subnets
\* its SubnetInfoList names are exactly the subnet keys stored under it.
C35_SubnetKeysMatchTheList ==
    \A id \in VNetIds :
        (/\ VNetKey(id) \in DOMAIN kv
         /\ kv[VNetKey(id)].Status \in {"InUse", "Available"}) =>
            LET subs == kv[VNetKey(id)].SubnetInfoList
            IN  {GenChildResourceKey(NsId, id, subs[i].Id) : i \in 1..Len(subs)}
                    = SubnetKeys(kv, id)

(* --------------------- claims on RegisterCredential -------------------- *)
\* this step is the successful return of the call of p, beside which no other
\* call ran
ReturnsAlone(p) == rc[p].pc = "rewrite" /\ rc'[p].pc = "done" /\ rc[p].alone

\* the broker regions of a provider, and the region-only one of a region
RegionsOf(provider) ==
    LET OfProvider(r) == ToLower(r.ProviderName) = <<provider>>
    IN  SelectSeq(GetRegionList, OfProvider)
RegionOnlyName(holder, provider, region) ==
    GenConfigName(holder, <<provider>> \o Dash \o <<region>>)
\* the ConfigNames of the holder's connections in one region of the provider:
\* the region-only one and its zoned siblings
NamesIn(holder, provider, region) ==
    {GenConfigName(holder, RegionsOf(provider)[i].RegionName) :
        i \in {j \in 1..Len(RegionsOf(provider)) : RegionsOf(provider)[j].Region = region}}
SiblingsOf(holder, provider, region) ==
    NamesIn(holder, provider, region) \ {RegionOnlyName(holder, provider, region)}

\* C14: when RegisterCredential returns, every stored ConnConfig of its
\* holder and provider is verified, or is a region representative.
C14_UnverifiedConfigsDiscarded ==
    [][\A p \in Procs :
          ReturnsAlone(p) =>
              LET cs == FilteredConnections(connStore', rc[p].holder, rc[p].provider)
              IN  \A i \in 1..Len(cs) : cs[i].Verified \/ cs[i].RegionRepresentative]_vars

\* C15: when RegisterCredential returns, every connection of its holder and
\* provider is stored, and is stored as verified exactly if its own probe
\* and its region lookup succeeded in this call.
C15_VerifiedIffOwnProbe ==
    [][\A p \in Procs :
          ReturnsAlone(p) =>
              \A i \in 1..Len(RegionsOf(rc[p].provider)) :
                  LET name == GenConfigName(rc[p].holder, RegionsOf(rc[p].provider)[i].RegionName)
                      key == GenConnectionKey(name)
                  IN  /\ key \in DOMAIN connStore'
                      /\ connStore'[key].Verified <=>
                            /\ name \in rc[p].probed
                            /\ GetRegion(connStore'[key].ProviderName,
                                         connStore'[key].RegionDetail.RegionName).ok]_vars

\* C15 witness: a call beside which no other ran is about to return; some of
\* its probes succeeded, some failed, and a failed one came before a
\* successful one
C15_MixedProbes ==
    \E p \in Procs :
        /\ rc[p].pc = "rewrite" /\ rc[p].alone
        /\ LET filtered == FilteredConnections(connStore, rc[p].holder, rc[p].provider)
           IN  \E i, j \in 1..Len(filtered) :
                  /\ i < j
                  /\ filtered[i].ConfigName \notin rc[p].probed /\ ~filtered[i].Verified
                  /\ filtered[j].ConfigName \in rc[p].probed /\ filtered[j].Verified

\* C16: when RegisterCredential returns, every region of its provider has
\* exactly one stored ConnConfig of its holder that is region representative.
C16_OneRepresentativeInEveryRegion ==
    [][\A p \in Procs :
          ReturnsAlone(p) =>
              \A region \in DOMAIN RuntimeCloudInfo[rc[p].provider].Regions :
                  Cardinality({name \in NamesIn(rc[p].holder, rc[p].provider, region) :
                                  /\ GenConnectionKey(name) \in DOMAIN connStore'
                                  /\ connStore'[GenConnectionKey(name)].RegionRepresentative}) = 1]_vars

\* C16 witness: a call beside which no other ran is about to return; the
\* region-only probe of a region failed, and a representative is stored for
\* every region of the provider, which has two regions
C16_RepresentativesElected ==
    \E p \in Procs :
        /\ rc[p].pc = "rewrite" /\ rc[p].alone
        /\ Cardinality(DOMAIN RuntimeCloudInfo[rc[p].provider].Regions) = 2
        /\ \E region \in DOMAIN RuntimeCloudInfo[rc[p].provider].Regions :
              RegionOnlyName(rc[p].holder, rc[p].provider, region) \notin rc[p].probed
        /\ \A region \in DOMAIN RuntimeCloudInfo[rc[p].provider].Regions :
              \E name \in NamesIn(rc[p].holder, rc[p].provider, region) :
                  /\ GenConnectionKey(name) \in DOMAIN connStore
                  /\ connStore[GenConnectionKey(name)].RegionRepresentative

\* C17: when RegisterCredential returns, the region-only connection of a
\* region whose probe failed while a zoned sibling's probe succeeded is stored
\* as an unverified region representative with the RegionZoneInfoName and
\* RegionZoneInfo of a verified zoned sibling; a region-only connection
\* whose probe succeeded keeps its RegionZoneInfoName.
C17_RepresentativeTakesSiblingZone ==
    [][\A p \in Procs :
          ReturnsAlone(p) =>
              \A region \in DOMAIN RuntimeCloudInfo[rc[p].provider].Regions :
                  LET name == RegionOnlyName(rc[p].holder, rc[p].provider, region)
                      siblings == SiblingsOf(rc[p].holder, rc[p].provider, region)
                      stored == connStore'[GenConnectionKey(name)]
                  IN  /\ (name \notin rc[p].probed /\ siblings \cap rc[p].probed # {}) =>
                            /\ stored.RegionRepresentative /\ ~stored.Verified
                            /\ \E s \in siblings :
                                  LET sib == connStore'[GenConnectionKey(s)]
                                  IN  /\ sib.Verified
                                      /\ stored.RegionZoneInfoName = sib.RegionZoneInfoName
                                      /\ stored.RegionZoneInfo = sib.RegionZoneInfo
                      /\ name \in rc[p].probed =>
                            stored.RegionZoneInfoName = <<rc[p].provider>> \o Dash \o <<region>>]_vars

\* C17 witness: the call returned and left an unverified region
\* representative that carries the region zone of its verified second zoned
\* sibling, beside a verified connection of another region
C17_ZoneRewritten ==
    \E p \in Procs : \E c1, c2, c3 \in StoredConns :
        /\ rc[p].pc = "done" /\ rc[p].err = "" /\ rc[p].found
        /\ c1.RegionRepresentative /\ ~c1.Verified
        /\ c2.Verified /\ c2 # c1 /\ SameRegion(c1, c2)
        /\ c2.CredentialHolder = c1.CredentialHolder
        /\ c1.RegionZoneInfoName = c2.RegionZoneInfoName
        /\ c1.RegionZoneInfo = c2.RegionZoneInfo
        /\ c3.Verified /\ c3.CredentialHolder = c1.CredentialHolder
        /\ EqualFold(c3.ProviderName, c1.ProviderName) /\ ~SameRegion(c1, c3)

\* C18: the step of RegisterCredential that registers the connection configs
\* of the provider's regions does not return from the call: it goes on to the
\* probes, and at most the one failed connection is missing in the store.
C18_ConnectionFailureKeepsBatch ==
    [][\A p \in Procs :
          rc[p].pc = "registerConns" =>
              /\ rc'[p].pc \in {"registerConns", "verify"}
              /\ rc'[p].pc = "verify" =>
                    Cardinality({i \in 1..Len(RegionsOf(rc[p].provider)) :
                        GenConnectionKey(GenConfigName(rc[p].holder,
                            RegionsOf(rc[p].provider)[i].RegionName)) \notin DOMAIN connStore'}) <= 1]_vars

\* C19: at no time do more than 32 probe workers of the fan-out exist.
C19_ProbeWorkersCapped == fan.spawned - fan.exited <= 32

\* C20: no two RegisterCredential calls have found the private key of the
\* same token.
C20_TokenIsOneShot ==
    \A p, q \in Procs :
        (p # q /\ rc[p].found /\ rc[q].found) => rc[p].token # rc[q].token

(* ------------------- claims on the credential envelope ----------------- *)
\* C21: the KeyValueInfoList a RegisterCredential call returned, with success
\* or with an error, holds no value but the mask, whatever the secrets of the
\* envelope and whatever the broker answered.
C21_ReturnedValuesAreMasked ==
    \A p \in Procs :
        rc[p].pc = "done" => \A i \in 1..Len(rc[p].ret) : rc[p].ret[i].Value = Mask

\* C21 witness: a call returned success with a key-value list that is not
\* empty, after the broker was sent the decrypted secret
C21_MaskedListReturned ==
    \E p \in Procs :
        /\ rc[p].pc = "done" /\ rc[p].err = "" /\ rc[p].pushed
        /\ rc[p].ret # <<>> /\ rc[p].ret[1].Value = Mask

\* an encrypted value that decodes to less than one block, whose ciphertext is
\* empty or no whole number of blocks, or whose padding byte is too large
Malformed(v) ==
    /\ v.b64
    /\ \/ v.len < BlockSize
       \/ v.len = BlockSize
       \/ (v.len - BlockSize) % BlockSize # 0
       \/ v.pad > BlockSize
       \/ v.pad > v.len - BlockSize

\* C22: the step of RegisterCredential that opens an envelope with a malformed
\* value returns an error value, does not panic, and the broker is sent
\* nothing.
C22_MalformedEnvelopeIsAnError ==
    [][\A p \in Procs :
          (/\ rc[p].pc = "decrypt" /\ rc'[p].pc # "decrypt"
           /\ \E i \in 1..Len(rc[p].envelope.values) : Malformed(rc[p].envelope.values[i]))
          => /\ rc'[p].pc = "done"
             /\ rc'[p].err \in {"badAesKeyBase64", "badRsaOaep", "badValueBase64", "badPadding"}
             /\ ~rc'[p].pushed]_vars

(* --------------------------- claims on labels -------------------------- *)
\* C24: once two distinct uuids of one kind have each been given a label map
\* by PUT /tumblebug/label/<kind>/<uuid>, a GET on either path answers the
\* labels that were asked for on that same path.
C24_GetAnswersThePathsLabels ==
    (/\ labelResp.op = "get"
     /\ <<labelResp.kind, labelResp.uuid>> \in DOMAIN labelLog
     /\ \E u2 \in Uuids \ {labelResp.uuid} : <<labelResp.kind, u2>> \in DOMAIN labelLog)
        => labelResp.labels = Asked(labelResp.kind, labelResp.uuid)

\* one clause of the selector table, evaluated on a label map
ClauseHolds(cl, labels) ==
    LET has == cl.key \in DOMAIN labels
    IN  CASE cl.op \in {"=", "==", "in"} -> has /\ labels[cl.key] \in cl.values
          [] cl.op \in {"!=", "notin"} -> ~has \/ labels[cl.key] \notin cl.values
          [] cl.op = "exists" -> has
          [] cl.op = "!exists" -> ~has
          [] OTHER -> FALSE

Holds(sel, labels) == \A i \in 1..Len(sel) : ClauseHolds(ParseClause(sel[i]), labels)

UnknownOperator(sel) == \E i \in 1..Len(sel) : ParseClause(sel[i]) = ParseError

\* C25: the answer of GET /tumblebug/resources/<kind>?labelSelector=S holds
\* a labelled entity of that kind exactly when S is true on the labels the
\* entity was given; a selector with an unknown operator is a parse error
\* with no result.
C25_SelectionMatchesTheLabels ==
    labelResp.op = "select" =>
        IF UnknownOperator(labelResp.sel)
        THEN labelResp.err # "" /\ labelResp.results = {}
        ELSE /\ labelResp.err = ""
             /\ \A u \in Uuids :
                   <<labelResp.kind, u>> \in DOMAIN labelLog =>
                       (u \in labelResp.results
                           <=> Holds(labelResp.sel, Asked(labelResp.kind, u)))

(* ------------------------- claims on CheckString ----------------------- *)
\* ^[a-zA-Z][a-zA-Z0-9-]*[a-zA-Z0-9]$
MatchesIdRule(name) ==
    /\ Len(name) >= 2
    /\ name[1] \in Letters
    /\ name[Len(name)] \in Letters \cup Digits
    /\ \A i \in 2..(Len(name) - 1) : name[i] \in Letters \cup Digits \cup {"-"}

\* C28: CheckString(name) returns no error exactly when name matches
\* ^[a-zA-Z][a-zA-Z0-9-]*[a-zA-Z0-9]$.
C28_CheckStringIsTheIdRule ==
    chk.pc = "done" => (chk.err = "" <=> MatchesIdRule(chk.name))

(* --------------------- claims on RegisterAllCloudInfo ------------------ *)
\* the providers a request has been sent for
Attempted == {boot.log[i].provider : i \in 1..Len(boot.log)}

\* C29: in RegisterAllCloudInfo no request of a provider follows a failed
\* request of that provider, and once RegisterAllCloudInfo has returned every
\* provider of the catalog has been attempted and no error is returned.
C29_FailureStopsOnlyThatProvider ==
    /\ \A i \in 1..Len(boot.log) : \A j \in (i + 1)..Len(boot.log) :
          ~boot.log[i].ok => boot.log[j].provider # boot.log[i].provider
    /\ boot.pc = "done" => (Attempted = Providers /\ boot.ret = "")

\* RegisterAllCloudInfo has returned after a provider failed and another
\* provider was pushed after that failure
C29_OtherProviderAfterFailure ==
    /\ boot.pc = "done"
    /\ \E i \in 1..Len(boot.log) : \E j \in (i + 1)..Len(boot.log) :
          /\ ~boot.log[i].ok
          /\ boot.log[j].provider # boot.log[i].provider
          /\ boot.log[j].ok

(* -------------------------- claims on RunServer ------------------------ *)
ShutdownInvoked == srv.gor \in {"draining", "exited", "panicking"}

\* C30: once a shutdown signal has arrived, Shutdown is invoked, with a drain
\* bound of 10 seconds, unless the server failed to start; RunServer returns
\* only after the shutdown step has ended; without a signal RunServer does
\* not return.
C30_GracefulShutdown ==
    /\ [](ShutdownInvoked =>
            srv.signalled /\ srv.deadline = 10 /\ srv.elapsed <= srv.deadline)
    /\ [](srv.main = "returned" => srv.signalled /\ srv.gor \in {"exited", "panicking"})
    /\ (srv.signalled ~> (ShutdownInvoked \/ srv.main = "panicked"))

\* RunServer has returned after a drain that waited for a request in flight
C30_ReturnedAfterDrain ==
    srv.main = "returned" /\ srv.gor = "exited" /\ srv.elapsed > 0

(* ------------------------ claims on the fan-out ------------------------ *)
\* C36: every probe worker of a fan-out ends, also when the handler stops
\* reading: a fan-out that was started reaches the close of the results
\* channel, which happens once, after every worker has ended, and no result
\* is sent after it.
C36_WorkersEndAndChannelClosesOnce ==
    /\ [](fan.closes <= 1 /\ fan.late = 0)
    /\ [](fan.closed => fan.exited = fan.n /\ fan.spawned = fan.n)
    /\ (fan.pc = "spawn" ~> fan.closed)

\* the handler stopped reading while results were still to come, and the
\* channel was closed after the last worker
C36_ClosedAfterEarlyStop ==
    fan.pc = "stopped" /\ fan.closed /\ fan.n >= 2 /\ fan.received = 1 /\ fan.buffered = fan.n - 1

(* ------------- claims on the region representative rewrite ------------ *)
\* the verified zoned connections of the provider and the region of a
\* representative, by their place in the store's list
VerifiedZonedSiblings(rep, verified) ==
    {i \in verified :
        /\ PrefixConns[i].ProviderName = PrefixConns[rep].ProviderName
        /\ PrefixConns[i].RegionDetail = PrefixConns[rep].RegionDetail
        /\ PrefixConns[i].ConfigName # PrefixConns[rep].ConfigName}

\* C37: when the rewrite gives an unverified region representative another
\* RegionZoneInfoName, that name and the RegionZoneInfo are those of a
\* verified zoned connection of the representative's provider and region,
\* the first of them in the order of the names, also when the name of the
\* representative's region begins the name of another region.
C37_RewriteCopiesFromOwnRegion ==
    (rw.pc = "done" /\ rw.out.RegionZoneInfoName # PrefixConns[rw.rep].RegionZoneInfoName) =>
        LET sibs == VerifiedZonedSiblings(rw.rep, rw.verified)
        IN  /\ sibs # {}
            /\ LET first == PrefixConns[CHOOSE i \in sibs : \A j \in sibs : i <= j]
               IN  /\ rw.out.RegionZoneInfoName = first.RegionZoneInfoName
                   /\ rw.out.RegionZoneInfo = first.RegionZoneInfo

(* ------------ claims on ValidateVNetReq and connection names ----------- *)
\* C38: for a request whose ConnectionName is a ConfigName RegisterCredential
\* generated (region-only, zoned or holder-prefixed), ValidateVNetReq does not
\* fail the region lookup, and it refuses a subnet zone exactly when the zone
\* is not in the zone list of the region of the stored ConnConfig.
C38_GeneratedNamesResolve ==
    vr.pc = "done" =>
        /\ vr.err \notin {"region not found", "panic: index out of range"}
        /\ (vr.err = "invalid zone") =
              (\E i \in 1..Len(vr.req.SubnetInfoList) :
                  /\ vr.req.SubnetInfoList[i].Zone # ""
                  /\ ~ContainsZone(vr.conn.RegionDetail.Zones, vr.req.SubnetInfoList[i].Zone))

(* --------------------- claims on authentication ------------------------ *)
\* C39: with TB_AUTH_ENABLED true and the mode basic or jwt, a request to a
\* registered route other than /tumblebug/readyz and /tumblebug/httpVersion
\* that carries no accepted credentials is answered Unauthorized, a request
\* to one of the two routes is served whatever it carries, and with any
\* other mode the server never serves.
C39_EveryRouteIsGuarded ==
    /\ (api.authEnabled /\ api.pc = "serving") => api.authMode \in {"basic", "jwt"}
    /\ (api.authEnabled /\ api.pc = "serving" /\ api.req # NoRequest) =>
          IF api.req.path \in AuthSkipPatterns THEN api.req.status = "OK"
          ELSE api.req.cred # "valid" => api.req.status = "Unauthorized"

(* --------------------- claims on GenRandomPassword --------------------- *)
\* C40: a call of GenRandomPassword with a length of 8 or more returns,
\* without a panic, a string of exactly that many characters in which each of
\* "A", "1", "!" and "$" occurs.
C40_PasswordHasLengthAndCharset ==
    (pw.pc = "done" /\ pw.length >= 8) =>
        /\ pw.err = ""
        /\ Len(pw.pw) = pw.length
        /\ \A k \in 1..Len(Charset) : \E i \in 1..Len(pw.pw) : pw.pw[i] = Charset[k]

\* the connection registry under concurrent RegisterCredential calls
SpecCred == Init /\ [][NextCred]_vars

\* the vNet lifecycle under concurrent handler calls
SpecVNet == Init /\ [][NextVNet]_vars

\* CreateVNet, GetVNet and RegisterVNet called one after the other, with any
\* request and any broker response
SpecVNetData == Init /\ [][NextVNetData]_vars

\* RegisterCredential, one call at a time, with any envelope and any broker
\* answer to the credential
SpecEnvelope == Init /\ [][NextEnvelope]_vars

\* CheckString on every name up to the length bound
SpecCheck == Init /\ [][NextCheck]_vars

\* RegisterAllCloudInfo with any range order and any broker outcome
SpecBoot == Init /\ [][NextBoot]_vars

\* RunServer from the signal context on; the scheduler runs the main thread
\* up to the go statement and the goroutine once the signal context is done
SpecServer ==
    Init /\ [][NextServer]_vars
         /\ WF_vars(Spawn /\ UNCHANGED exceptServer)
         /\ WF_vars(ShutdownInvoke /\ UNCHANGED exceptServer)

\* the rewrite of one region representative, for every representative of the
\* prefix catalog and every set of verified connections
SpecRewrite == Init /\ [][NextRewrite]_vars

\* ValidateVNetReq on every connection name RegisterCredential generates
SpecValidate == Init /\ [][NextValidate]_vars

\* the set-up of authentication and routes, and the requests served after it
SpecRoutes == Init /\ [][NextRoutes]_vars

\* GenRandomPassword on every length up to MaxPasswordLen
SpecPassword == Init /\ [][NextPassword]_vars

\* the label handlers, one request at a time
SpecLabel == Init /\ [][NextLabel]_vars

\* the probe fan-out of RegisterCredential, one goroutine step at a time
SpecFanOut == Init /\ [][NextFanOut]_vars

\* the same fan-out, where the scheduler runs the spawning loop, every worker
\* and the closer goroutine as long as they can take a step
SpecFanOutLive ==
    SpecFanOut /\ WF_vars(FanOutSpawn) /\ WF_vars(FanOutCollect)
               /\ WF_vars(FanOutWorker) /\ WF_vars(FanOutClose)

====
